---- MODULE Spec2Model ----
(***************************************************************************)
(* Model of the document retrieval pipeline of DocumentIntelligencePlatform *)
(* (documents/vector_store.py, documents/views.py).                         *)
(*                                                                          *)
(*   SpecStore  the VectorStore API called directly, one whole method per   *)
(*              action, with process restarts and crashes during a flush.   *)
(*   Spec       the request handlers of views.py on one worker, one step    *)
(*              per record-store commit / vector-store call.                *)
(*   SpecConc   VectorStore methods run by concurrent threads and worker    *)
(*              processes, one step per dictionary or file operation.       *)
(***************************************************************************)
EXTENDS Integers, Sequences, FiniteSets, TLC

VARIABLES
    embeddings_data,   \* VectorStore.embeddings_data of the worker process
    storage_file,      \* embeddings_data.json on disk
    last,              \* the last VectorStore call and its outcome
    documents,         \* Document table: id -> status of the committed row
    error_message,     \* Document table: id -> error_message of the row
    chunk_rows,        \* DocumentChunk table
    next_id,           \* the next Document primary key
    pc,                \* where the request being served stands in its view
    req,               \* the locals of the request being served
    http_response,     \* the last response a view returned
    worker_data,       \* SpecConc: embeddings_data of each worker process
    threads,           \* SpecConc: each thread's method call and position
    initial_store      \* SpecConc: the store before the concurrent calls

storeVars == <<embeddings_data, storage_file, last>>
viewVars == <<documents, error_message, chunk_rows, next_id, pc, req,
              http_response>>
concVars == <<worker_data, threads, initial_store>>
vars == <<embeddings_data, storage_file, last, documents, error_message,
          chunk_rows, next_id, pc, req, http_response, worker_data, threads,
          initial_store>>

\* ------------------------------------------------------------------ bounds
MaxDocs == 2
MaxChunks == 2
MaxStore == 2
MaxThreads == 2
\* Document ids and chunk indexes up to KeyRange are formatted into keys.
KeyRange == 11
\* Texts without a word of up to MaxBlank symbols are uploaded.
MaxBlank == 2
\* Texts of up to MaxText symbols, PDFs of up to MaxPages pages of up to
\* MaxPageText symbols, CHUNK_SIZE up to MaxChunkSize tokens and
\* CHUNK_OVERLAP up to MaxOverlap tokens.
MaxText == 5
MaxPages == 2
MaxPageText == 2
MaxChunkSize == 3
MaxOverlap == 2

DocIds == 1..MaxDocs
ChunkIndexes == 0..(MaxChunks - 1)
Texts == {"a", "b"}

\* ------------------------------------------------- insertion-ordered dict
\* A Python dict is modelled as the sequence of its items in insertion order,
\* each item [id |-> key, data |-> value], keys unique.
DictKeys(m) == {m[j].id : j \in 1..Len(m)}

DictIndex(m, k) == CHOOSE j \in 1..Len(m) : m[j].id = k

DictGet(m, k) == m[DictIndex(m, k)].data

\* A store that appends an item on every write, whether the key exists or not.
DictAppend(m, k, v) == Append(m, [id |-> k, data |-> v])

\* m[k] = v: an existing key keeps its position, a new key goes last.
DictSet(m, k, v) ==
    IF k \in DictKeys(m)
    THEN [m EXCEPT ![DictIndex(m, k)] = [id |-> k, data |-> v]]
    ELSE Append(m, [id |-> k, data |-> v])

\* del m[k]
DictDel(m, k) == SelectSeq(m, LAMBDA e : e.id # k)

\* The records (values) of a dict, as a set.
Records(m) == {m[j].data : j \in 1..Len(m)}

\* ------------------------------------------------------------- chunk keys
Digit(n) ==
    CASE n = 0 -> "0" [] n = 1 -> "1" [] n = 2 -> "2" [] n = 3 -> "3"
      [] n = 4 -> "4" [] n = 5 -> "5" [] n = 6 -> "6" [] n = 7 -> "7"
      [] n = 8 -> "8" [] n = 9 -> "9"

RECURSIVE Str(_)
\* str(n) of a non-negative int, as the f-string formats it.
Str(n) == IF n < 10 THEN Digit(n) ELSE Str(n \div 10) \o Digit(n % 10)

\* A key made of the document id alone.
chunk_id_of_document(document_id, chunk_index) ==
    "doc_" \o Str(document_id)

\* f"doc_{chunk['document_id']}_chunk_{chunk['chunk_index']}"
chunk_id(document_id, chunk_index) ==
    "doc_" \o Str(document_id) \o "_chunk_" \o Str(chunk_index)

\* ---------------------------------------------------- embedding capability
\* client.embeddings.create: one vector per input text.  The vectors have
\* integer magnitude so that math.sqrt is exact in the model.
\* "z" stands for a text whose vector is all zeros, "e" for one whose vector
\* is empty.
embedding(text) ==
    CASE text = "a" -> <<1, 0>>
      [] text = "b" -> <<0, 1>>
      [] text = "z" -> <<0, 0>>
      [] text = "e" -> <<>>
      [] OTHER -> <<3, 4>>

\* The outcomes of one embeddings.create(input=texts) call: it raises, or it
\* returns response.data holding the vectors of the first n texts (n = the
\* number of texts for a well-formed response).
EmbedResponses(texts) ==
    {[ok |-> FALSE, data |-> <<>>]} \cup
    {[ok |-> TRUE, data |-> [j \in 1..n |-> embedding(texts[j])]] :
        n \in 0..Len(texts)}

FullResponse(texts) ==
    [ok |-> TRUE, data |-> [j \in 1..Len(texts) |-> embedding(texts[j])]]

\* ------------------------------------------------------------ the store file
\* embeddings_data.json: absent, or the items json.dump has written so far
\* (text) and whether the closing brace was written (closed).
NoFile == [exists |-> FALSE, text |-> <<>>, closed |-> FALSE]

\* json.dump(self.embeddings_data, f): the items in dict order.
JsonDump(m) == [j \in 1..Len(m) |-> <<m[j].id, m[j].data>>]

\* A json.load that yields the items of the file last to first.
JsonLoadReversed(text) ==
    [j \in 1..Len(text) |->
        [id |-> text[Len(text) + 1 - j][1],
         data |-> text[Len(text) + 1 - j][2]]]

RECURSIVE JsonLoad(_)
\* json.load(f) of a complete object: items are set in file order.
JsonLoad(text) ==
    IF text = <<>> THEN <<>>
    ELSE LET n == Len(text)
         IN DictSet(JsonLoad(SubSeq(text, 1, n - 1)), text[n][1], text[n][2])

WholeFile(m) == [exists |-> TRUE, text |-> JsonDump(m), closed |-> TRUE]

\* What the file can hold while a flush of m is under way: open(path, 'w')
\* has truncated it and json.dump has written a prefix of the items.
TornFiles(m) ==
    {[exists |-> TRUE, text |-> SubSeq(JsonDump(m), 1, j), closed |-> FALSE] :
        j \in 0..Len(m)}

\* VectorStore._load_embeddings: {} when the file is absent or json.load
\* raises (a file that is not a complete JSON object).
load_embeddings(f) ==
    IF ~f.exists THEN <<>>
    ELSE IF ~f.closed THEN <<>>
    ELSE JsonLoad(f.text)

FlushOutcomes == {"ok", "open_fails", "write_fails"}

\* VectorStore._save_embeddings(m) on file f: the new file.  Every exception
\* is logged and swallowed, so the caller sees a normal return in all cases.
\*   "ok"           the whole mapping is written
\*   "open_fails"   open(path, 'w') raises: the file is untouched
\*   "write_fails"  json.dump raises after the truncation: torn is left
save_embeddings(m, f, outcome, torn) ==
    CASE outcome = "ok" -> WholeFile(m)
      [] outcome = "open_fails" -> f
      [] outcome = "write_fails" -> torn

\* The files a flush of m with this outcome can leave half-written: only a
\* failing json.dump leaves one.
TornChoices(m, outcome) ==
    IF outcome = "write_fails" THEN TornFiles(m) ELSE {NoFile}

\* ---------------------------------------------------------------- add_chunks
StoredRecord(chunk, vector) ==
    [embedding |-> vector,
     text |-> chunk.text,
     document_id |-> chunk.document_id,
     chunk_index |-> chunk.chunk_index,
     page_numbers |-> chunk.page_numbers,
     token_count |-> chunk.token_count]

RECURSIVE StoreLoop(_, _, _, _)
\* The for-loop of add_chunks over its first n chunks.
StoreLoop(m, chunks, data, n) ==
    IF n = 0 THEN m
    ELSE DictSet(StoreLoop(m, chunks, data, n - 1),
                 chunk_id(chunks[n].document_id, chunks[n].chunk_index),
                 StoredRecord(chunks[n], data[n]))

ChunkIds(chunks) ==
    [j \in 1..Len(chunks) |->
        chunk_id(chunks[j].document_id, chunks[j].chunk_index)]

\* VectorStore.add_chunks(chunks) on mapping m and file f, given the embedding
\* call's response and the flush's outcome.  response.data[i] raises
\* IndexError at the first chunk that has no vector.
add_chunks(m, f, chunks, response, outcome, torn) ==
    IF chunks = <<>>
    THEN [mem |-> m, disk |-> f, raised |-> FALSE, ids |-> <<>>]
    ELSE IF ~response.ok
    THEN [mem |-> m, disk |-> f, raised |-> TRUE, ids |-> <<>>]
    ELSE IF Len(response.data) < Len(chunks)
    THEN [mem |-> StoreLoop(m, chunks, response.data, Len(response.data)),
          disk |-> f, raised |-> TRUE, ids |-> <<>>]
    ELSE LET m2 == StoreLoop(m, chunks, response.data, Len(chunks))
         IN [mem |-> m2,
             disk |-> save_embeddings(m2, f, outcome, torn),
             raised |-> FALSE,
             ids |-> ChunkIds(chunks)]

\* ---------------------------------------------------- delete / reset / stats
\* A delete that drops every record, whatever its document.
delete_all_documents(m, f, document_id, outcome, torn) ==
    [mem |-> <<>>,
     disk |-> save_embeddings(<<>>, f, outcome, torn),
     raised |-> FALSE,
     result |-> Len(m) > 0]

\* VectorStore.delete_document_chunks(document_id)
delete_document_chunks(m, f, document_id, outcome, torn) ==
    LET chunks_to_delete ==
            SelectSeq(m, LAMBDA e : e.data.document_id = document_id)
        m2 == SelectSeq(m, LAMBDA e : e.data.document_id # document_id)
    IN [mem |-> m2,
        disk |-> save_embeddings(m2, f, outcome, torn),
        raised |-> FALSE,
        result |-> Len(chunks_to_delete) > 0]

\* VectorStore.reset_collection()
reset_collection(f, outcome, torn) ==
    [mem |-> <<>>,
     disk |-> save_embeddings(<<>>, f, outcome, torn),
     result |-> TRUE]

\* VectorStore.get_collection_stats()
get_collection_stats(m) ==
    [total_chunks |-> Len(m),
     documents_with_chunks |->
        Cardinality({m[j].data.document_id : j \in 1..Len(m)})]

\* -------------------------------------------------------------------- search
RECURSIVE SumTo(_, _)
SumTo(f, n) == IF n = 0 THEN 0 ELSE SumTo(f, n - 1) + f[n]

Min(a, b) == IF a <= b THEN a ELSE b

\* sum(a * b for a, b in zip(vec1, vec2))
Dot(v1, v2) ==
    LET n == Min(Len(v1), Len(v2))
    IN SumTo([j \in 1..n |-> v1[j] * v2[j]], n)

\* math.sqrt, exact on the perfect squares the model's vectors produce.
Sqrt(n) == CHOOSE r \in 0..n : r * r = n

\* _cosine_similarity without the test of the magnitudes: den = 0 stands for
\* the ZeroDivisionError of the division.
cosine_similarity_unguarded(vec1, vec2) ==
    [num |-> Dot(vec1, vec2),
     den |-> Sqrt(Dot(vec1, vec1)) * Sqrt(Dot(vec2, vec2))]

\* VectorStore._cosine_similarity, as the exact fraction num/den; den = 0
\* stands for the ZeroDivisionError of the division.
cosine_similarity(vec1, vec2) ==
    LET dot_product == Dot(vec1, vec2)
        magnitude1 == Sqrt(Dot(vec1, vec1))
        magnitude2 == Sqrt(Dot(vec2, vec2))
    IN IF magnitude1 = 0 \/ magnitude2 = 0
       THEN [num |-> 0, den |-> 1]
       ELSE [num |-> dot_product, den |-> magnitude1 * magnitude2]

SimGeq(a, b) == a.num * b.den >= b.num * a.den
SimEq(a, b) == a.num * b.den = b.num * a.den

\* The list left in the order of the scoring loop: no sort at all.
Unsorted(s) == s

RECURSIVE SortBySimilarity(_)
\* list.sort(key=similarity, reverse=True): stable, so items of equal
\* similarity keep their order in the list.
SortBySimilarity(s) ==
    IF Len(s) <= 1 THEN s
    ELSE LET n == Len(s)
             head == SortBySimilarity(SubSeq(s, 1, n - 1))
             e == s[n]
             p == Cardinality({j \in 1..(n - 1) :
                                 SimGeq(head[j].similarity, e.similarity)})
         IN SubSeq(head, 1, p) \o <<e>> \o SubSeq(head, p + 1, n - 1)

\* Similarities without the document_id test: every stored record is scored.
SimilaritiesAllDocuments(m, query_embedding, document_id) ==
    [j \in 1..Len(m) |->
        [id |-> m[j].id,
         similarity |-> cosine_similarity(query_embedding,
                                          m[j].data.embedding),
         data |-> m[j].data]]

\* The loop of search_similar_chunks that scores the stored records.
Similarities(m, query_embedding, document_id) ==
    LET own == SelectSeq(m, LAMBDA e : e.data.document_id = document_id)
    IN [j \in 1..Len(own) |->
           [id |-> own[j].id,
            similarity |-> cosine_similarity(query_embedding,
                                             own[j].data.embedding),
            data |-> own[j].data]]

FormatResult(r) ==
    [id |-> r.id,
     text |-> r.data.text,
     similarity |-> r.similarity,
     chunk_index |-> r.data.chunk_index,
     page_numbers |-> r.data.page_numbers,
     token_count |-> r.data.token_count]

\* VectorStore.search_similar_chunks(query, document_id, num_results), given
\* the response of the query's embedding call.
search_similar_chunks(m, query, document_id, num_results, response) ==
    IF ~response.ok \/ response.data = <<>>
    THEN [raised |-> TRUE, chunks |-> <<>>]
    ELSE IF \E j \in 1..Len(m) :
               /\ m[j].data.document_id = document_id
               /\ cosine_similarity(response.data[1],
                                    m[j].data.embedding).den = 0
    THEN [raised |-> TRUE, chunks |-> <<>>]
    ELSE LET sorted == SortBySimilarity(
                           Similarities(m, response.data[1], document_id))
             top_results == SubSeq(sorted, 1, Min(num_results, Len(sorted)))
         IN [raised |-> FALSE,
             chunks |-> [j \in 1..Len(top_results) |->
                            FormatResult(top_results[j])]]

\* ------------------------------------------------ initial request state
\* calls lists the capability calls _process_document has made so far.
\* text is what extract_text returned.
NoRequest == [document |-> 0, text |-> <<>>, chunks_data |-> <<>>,
              embedding_ids |-> <<>>, error |-> "", calls |-> <<>>,
              before |-> <<>>]

NoResponse == [view |-> "", status |-> 0, error |-> ""]

Response(view, status, error) ==
    [view |-> view, status |-> status, error |-> error]

viewInit ==
    /\ documents = [d \in DocIds |-> "absent"]
    /\ error_message = [d \in DocIds |-> ""]
    /\ chunk_rows = {}
    /\ next_id = 1
    /\ pc = "idle"
    /\ req = NoRequest
    /\ http_response = NoResponse

concInit ==
    /\ worker_data = <<>>
    /\ threads = <<>>
    /\ initial_store = <<>>

\* ======================================================== SpecStore
\* The VectorStore API, one call per behaviour: Init draws the store (every
\* mapping a sequence of add_chunks calls can have built, up to MaxStore
\* records, flushed to the file), one action runs one whole method with every
\* outcome of the embedding call and of the flush, and the worker process may
\* then be restarted.

\* The chunk dictionaries of document_id a caller can hand to add_chunks.
ChunkDicts(document_id, texts) ==
    [text : texts, chunk_index : ChunkIndexes, page_numbers : {<<1>>},
     token_count : {1}, document_id : {document_id}]

\* Batches of up to MaxChunks chunks of one document, in any index order.
Batches(texts) ==
    UNION {[1..n -> ChunkDicts(d, texts)] : n \in 0..MaxChunks, d \in DocIds}

BatchTexts(chunks) == [j \in 1..Len(chunks) |-> chunks[j].text]

\* The items add_chunks can have stored.
StoreItems(texts) ==
    {[id |-> chunk_id(c.document_id, c.chunk_index),
      data |-> StoredRecord(c, embedding(c.text))] :
        c \in UNION {ChunkDicts(d, texts) : d \in DocIds}}

\* The mappings of up to MaxStore records: items in any insertion order, one
\* per key.
Stores(texts) ==
    {s \in UNION {[1..n -> StoreItems(texts)] : n \in 0..MaxStore} :
        \A j, k \in 1..Len(s) : j # k => s[j].id # s[k].id}

\* The record of a call: before is the in-memory mapping the call found.
Called(op, arg, outcome, result, flushed) ==
    [op |-> op, arg |-> arg, outcome |-> outcome, result |-> result,
     flushed |-> flushed, before |-> embeddings_data]

Idle == Called("init", <<>>, "returned", <<>>, <<>>)

InitStore ==
    /\ embeddings_data \in Stores({"a"})
    /\ storage_file = IF embeddings_data = <<>> THEN NoFile
                      ELSE WholeFile(embeddings_data)
    /\ last = Idle
    /\ viewInit
    /\ concInit

\* vector_store.add_chunks(chunks) runs to its return or its raise.
SAddChunks ==
    /\ last.op = "init"
    /\ \E chunks \in Batches({"a"}) :
       \E response \in EmbedResponses(BatchTexts(chunks)) :
       \E outcome \in FlushOutcomes :
       \E torn \in TornChoices(StoreLoop(embeddings_data, chunks,
                         response.data,
                         Min(Len(response.data), Len(chunks))), outcome) :
          LET r == add_chunks(embeddings_data, storage_file, chunks, response,
                              outcome, torn)
          IN /\ embeddings_data' = r.mem
             /\ storage_file' = r.disk
             /\ last' = Called("add_chunks", chunks,
                               IF r.raised THEN "raised" ELSE "returned",
                               r.ids, <<>>)
    /\ UNCHANGED <<viewVars, concVars>>

\* vector_store.delete_document_chunks(document_id)
SDeleteDocumentChunks ==
    /\ last.op = "init"
    /\ \E document_id \in DocIds :
       \E outcome \in FlushOutcomes :
       \E torn \in TornChoices(SelectSeq(embeddings_data,
                     LAMBDA e : e.data.document_id # document_id),
                     outcome) :
          LET r == delete_document_chunks(embeddings_data, storage_file,
                                          document_id, outcome, torn)
          IN /\ embeddings_data' = r.mem
             /\ storage_file' = r.disk
             /\ last' = Called("delete_document_chunks", document_id,
                               "returned", r.result, <<>>)
    /\ UNCHANGED <<viewVars, concVars>>

\* vector_store.reset_collection()
SResetCollection ==
    /\ last.op = "init"
    /\ \E outcome \in FlushOutcomes :
       \E torn \in TornChoices(<<>>, outcome) :
          LET r == reset_collection(storage_file, outcome, torn)
          IN /\ embeddings_data' = r.mem
             /\ storage_file' = r.disk
             /\ last' = Called("reset_collection", <<>>, "returned",
                               r.result, <<>>)
    /\ UNCHANGED <<viewVars, concVars>>

\* The mappings a mutating call hands to _save_embeddings.
FlushCandidates(m) ==
    {StoreLoop(m, chunks, FullResponse(BatchTexts(chunks)).data, Len(chunks)) :
        chunks \in Batches({"a"}) \ {<<>>}}
    \cup {SelectSeq(m, LAMBDA e : e.data.document_id # d) : d \in DocIds}
    \cup {<<>>}

\* The process dies inside the _save_embeddings of a mutating call, after
\* open(path, 'w') and before the file is closed, and is started again: the
\* module-level vector_store = VectorStore() loads whatever the file holds.
SCrashInFlush ==
    /\ last.op = "init"
    /\ \E m2 \in FlushCandidates(embeddings_data) :
       \E file \in TornFiles(m2) \cup {WholeFile(m2)} :
          /\ storage_file' = file
          /\ embeddings_data' = load_embeddings(file)
          /\ last' = Called("flush", <<>>, "crashed", <<>>, m2)
    /\ UNCHANGED <<viewVars, concVars>>

\* The worker process is restarted after the call: VectorStore() loads the
\* file again.
SRestart ==
    /\ last.op \in {"add_chunks", "delete_document_chunks", "reset_collection"}
    /\ embeddings_data' = load_embeddings(storage_file)
    /\ last' = [last EXCEPT !.op = "restart"]
    /\ UNCHANGED <<storage_file, viewVars, concVars>>

NextStore ==
    \/ SAddChunks
    \/ SDeleteDocumentChunks
    \/ SResetCollection
    \/ SCrashInFlush
    \/ SRestart

SpecStore == InitStore /\ [][NextStore]_vars

\* ======================================================== SpecSearch
\* The read methods of VectorStore on every store content, one call per
\* behaviour: a read leaves the store as it is, so a second read would start
\* from a store Init already draws.
InitSearch ==
    /\ embeddings_data \in Stores(Texts)
    /\ storage_file = IF embeddings_data = <<>> THEN NoFile
                      ELSE WholeFile(embeddings_data)
    /\ last = Idle
    /\ viewInit
    /\ concInit

\* vector_store.search_similar_chunks(query, document_id, num_results)
SSearch ==
    /\ last.op = "init"
    /\ \E query \in Texts :
       \E document_id \in DocIds :
       \E num_results \in 1..(MaxStore + 1) :
       \E response \in EmbedResponses(<<query>>) :
          LET r == search_similar_chunks(embeddings_data, query, document_id,
                                         num_results, response)
          IN last' = Called("search_similar_chunks",
                            [query |-> query, document_id |-> document_id,
                             num_results |-> num_results],
                            IF r.raised THEN "raised" ELSE "returned",
                            r.chunks, <<>>)
    /\ UNCHANGED <<embeddings_data, storage_file, viewVars, concVars>>

\* vector_store.get_collection_stats()
SStats ==
    /\ last.op = "init"
    /\ last' = Called("get_collection_stats", <<>>, "returned",
                      get_collection_stats(embeddings_data), <<>>)
    /\ UNCHANGED <<embeddings_data, storage_file, viewVars, concVars>>

NextSearch ==
    \/ SSearch
    \/ SStats

SpecSearch == InitSearch /\ [][NextSearch]_vars

\* ======================================================== SpecZero
\* search_similar_chunks on stores and queries whose vectors can have zero
\* magnitude, one call per behaviour.
ZeroTexts == {"a", "z", "e"}

ZeroMagnitude(vec) == Sqrt(Dot(vec, vec)) = 0

InitZero ==
    /\ embeddings_data \in Stores(ZeroTexts)
    /\ storage_file = IF embeddings_data = <<>> THEN NoFile
                      ELSE WholeFile(embeddings_data)
    /\ last = Idle
    /\ viewInit
    /\ concInit

\* vector_store.search_similar_chunks(query, document_id, num_results) with
\* an embedding call that returns the query's vector.
SZeroSearch ==
    /\ last.op = "init"
    /\ \E query \in ZeroTexts :
       \E document_id \in DocIds :
       \E num_results \in 1..MaxStore :
          LET r == search_similar_chunks(embeddings_data, query, document_id,
                                         num_results,
                                         FullResponse(<<query>>))
          IN last' = Called("search_similar_chunks",
                            [query |-> query, document_id |-> document_id,
                             num_results |-> num_results],
                            IF r.raised THEN "raised" ELSE "returned",
                            r.chunks, <<>>)
    /\ UNCHANGED <<embeddings_data, storage_file, viewVars, concVars>>

NextZero == SZeroSearch

SpecZero == InitZero /\ [][NextZero]_vars

\* ======================================================== SpecChunk
\* processing.py, DocumentProcessor: a text is the sequence of its symbols: a
\* word, a whitespace character, a sentence terminator, or a whole
\* '[Page N]' marker.

Words == {"a", "b", "c"}
Whitespace == {" ", "\n"}
Terminators == {".", "!", "?"}

\* f"[Page {page_num + 1}]"
PageMarker(n) == "[Page " \o Str(n) \o "]"

Markers == {PageMarker(n) : n \in 1..MaxPages}

MarkerPage(c) == CHOOSE n \in 1..MaxPages : PageMarker(n) = c

RECURSIVE LStrip(_)
LStrip(s) == IF s # <<>> /\ s[1] \in Whitespace THEN LStrip(Tail(s)) ELSE s

RECURSIVE RStrip(_)
RStrip(s) ==
    IF s # <<>> /\ s[Len(s)] \in Whitespace
    THEN RStrip(SubSeq(s, 1, Len(s) - 1))
    ELSE s

\* str.strip()
Strip(s) == LStrip(RStrip(s))

RECURSIVE CollapseWhitespace(_)
\* re.sub(r'\s+', ' ', text)
CollapseWhitespace(s) ==
    IF s = <<>> THEN <<>>
    ELSE LET n == Len(s)
             head == CollapseWhitespace(SubSeq(s, 1, n - 1))
         IN IF s[n] \notin Whitespace THEN Append(head, s[n])
            ELSE IF head # <<>> /\ s[n - 1] \in Whitespace THEN head
            ELSE Append(head, " ")

\* A _clean_text that leaves the page markers in the text.
clean_text_keeping_markers(text) == Strip(CollapseWhitespace(text))

\* DocumentProcessor._clean_text: whitespace runs become one space, then the
\* page markers are removed (the spaces around a marker stay), then strip().
clean_text(text) ==
    Strip(SelectSeq(CollapseWhitespace(text), LAMBDA c : c \notin Markers))

RECURSIVE SplitAtTerminators(_)
\* re.split(r'[.!?]+', text); a run of terminators gives empty pieces here,
\* which _split_into_sentences drops like the other blank pieces.
SplitAtTerminators(s) ==
    IF \A j \in 1..Len(s) : s[j] \notin Terminators THEN <<s>>
    ELSE LET j == CHOOSE k \in 1..Len(s) :
                     /\ s[k] \in Terminators
                     /\ \A i \in 1..(k - 1) : s[i] \notin Terminators
         IN <<SubSeq(s, 1, j - 1)>>
               \o SplitAtTerminators(SubSeq(s, j + 1, Len(s)))

\* DocumentProcessor._split_into_sentences
split_into_sentences(text) ==
    LET pieces == SplitAtTerminators(text)
    IN SelectSeq([j \in 1..Len(pieces) |-> Strip(pieces[j])],
                 LAMBDA p : p # <<>>)

\* tokenizer.encode(text): one token per word; the whitespace before a word
\* belongs to the word's token and is not told apart.
encode(text) == SelectSeq(text, LAMBDA c : c \notin Whitespace)

RECURSIVE decode(_)
\* tokenizer.decode(tokens): the words, a space between two of them.
decode(tokens) ==
    IF Len(tokens) <= 1 THEN tokens
    ELSE decode(SubSeq(tokens, 1, Len(tokens) - 1))
            \o <<" ", tokens[Len(tokens)]>>

\* tokens[-k:], which is the whole list for k = 0.
LastTokens(tokens, k) ==
    IF k = 0 \/ k >= Len(tokens) THEN tokens
    ELSE SubSeq(tokens, Len(tokens) - k + 1, Len(tokens))

\* DocumentProcessor._get_overlap_text
get_overlap_text(text, chunk_overlap) ==
    LET tokens == encode(text)
    IN IF Len(tokens) <= chunk_overlap THEN text
       ELSE decode(LastTokens(tokens, chunk_overlap))

\* DocumentProcessor._extract_page_numbers
extract_page_numbers(text) ==
    LET page_matches == SelectSeq(text, LAMBDA c : c \in Markers)
    IN IF page_matches # <<>>
       THEN [j \in 1..Len(page_matches) |-> MarkerPage(page_matches[j])]
       ELSE <<1>>

\* DocumentProcessor._create_chunk
create_chunk(text, chunk_index, document_id) ==
    [text |-> text,
     chunk_index |-> chunk_index,
     page_numbers |-> extract_page_numbers(text),
     token_count |-> Len(encode(text)),
     document_id |-> document_id]

\* A chunk counter that is never advanced.
SameIndex(chunk_index) == chunk_index

\* chunk_index += 1
NextIndex(chunk_index) == chunk_index + 1

\* A new chunk seeded with the overlap only: the sentence is lost.
SeedWithoutSentence(overlap_text, sentence) == overlap_text

\* current_chunk = overlap_text + " " + sentence
SeedChunk(overlap_text, sentence) == overlap_text \o <<" ">> \o sentence

RECURSIVE ChunkLoop(_, _, _, _, _)
\* The for-loop of chunk_text over the first n sentences: the locals after it.
ChunkLoop(sentences, n, document_id, chunk_size, chunk_overlap) ==
    IF n = 0
    THEN [chunks |-> <<>>, current_chunk |-> <<>>, current_tokens |-> 0,
          chunk_index |-> 0]
    ELSE LET st == ChunkLoop(sentences, n - 1, document_id, chunk_size,
                             chunk_overlap)
             sentence == sentences[n]
             sentence_tokens == Len(encode(sentence))
         IN IF /\ st.current_tokens + sentence_tokens > chunk_size
               /\ st.current_chunk # <<>>
            THEN LET current_chunk ==
                         SeedChunk(get_overlap_text(st.current_chunk,
                                                    chunk_overlap), sentence)
                 IN [chunks |-> Append(st.chunks,
                                   create_chunk(Strip(st.current_chunk),
                                                st.chunk_index, document_id)),
                     current_chunk |-> current_chunk,
                     current_tokens |-> Len(encode(current_chunk)),
                     chunk_index |-> NextIndex(st.chunk_index)]
            ELSE [st EXCEPT
                    !.current_chunk = IF @ # <<>>
                                      THEN @ \o <<" ">> \o sentence
                                      ELSE sentence,
                    !.current_tokens = @ + sentence_tokens]

\* DocumentProcessor.chunk_text(text, document_id) with the settings
\* CHUNK_SIZE and CHUNK_OVERLAP.
chunk_text(text, document_id, chunk_size, chunk_overlap) ==
    LET sentences == split_into_sentences(clean_text(text))
        st == ChunkLoop(sentences, Len(sentences), document_id, chunk_size,
                        chunk_overlap)
    IN IF Strip(st.current_chunk) # <<>>
       THEN Append(st.chunks, create_chunk(Strip(st.current_chunk),
                                           st.chunk_index, document_id))
       ELSE st.chunks

\* ------------------------------------------------------- _extract_from_pdf
\* text += f"\n[Page {page_num + 1}]\n{page_text}\n"
PageBlock(page_num, page_text) ==
    <<"\n", PageMarker(page_num), "\n">> \o page_text \o <<"\n">>

\* A page loop without the try: the exception of a page leaves the method.
PageFailureAborts(st, page_num, page) ==
    IF st.raised \/ page.raises THEN [text |-> <<>>, raised |-> TRUE]
    ELSE IF Strip(page.text) # <<>>
    THEN [st EXCEPT !.text = @ \o PageBlock(page_num, page.text)]
    ELSE st

\* The body of the page loop: the text of a page that is not blank is added
\* under its marker; a page whose extract_text() raises is logged and
\* skipped.
PageStep(st, page_num, page) ==
    IF page.raises THEN st
    ELSE IF Strip(page.text) # <<>>
    THEN [st EXCEPT !.text = @ \o PageBlock(page_num, page.text)]
    ELSE st

RECURSIVE PdfLoop(_, _)
\* The locals after the first n pages of the loop.
PdfLoop(pages, n) ==
    IF n = 0 THEN [text |-> <<>>, raised |-> FALSE]
    ELSE PageStep(PdfLoop(pages, n - 1), n, pages[n])

\* DocumentProcessor._extract_from_pdf on a file PdfReader can open, whose
\* pages are given by what page.extract_text() does on each.
extract_from_pdf(pages) ==
    LET st == PdfLoop(pages, Len(pages))
    IN [raised |-> st.raised, text |-> st.text, page_count |-> Len(pages)]

\* ------------------------------------------------------------ the calls
\* The texts chunk_text is called with: up to MaxText symbols.
Alphabet == {"a", "b", " ", ".", PageMarker(1)}

RawTexts == UNION {[1..n -> Alphabet] : n \in 0..MaxText}

ChunkSizes == 1..MaxChunkSize
ChunkOverlaps == 0..MaxOverlap

\* The word the text of page n is made of, so that a word tells its page.
PageWord(n) == CASE n = 1 -> "a" [] n = 2 -> "b" [] OTHER -> "c"

\* What page.extract_text() can do on page n: raise, or return a text of up
\* to MaxPageText symbols (blank ones included).
PageOutcomes(n) ==
    {[raises |-> TRUE, text |-> <<>>]} \cup
    {[raises |-> FALSE, text |-> t] :
        t \in UNION {[1..k -> {PageWord(n), " ", "."}] : k \in 0..MaxPageText}}

RECURSIVE PdfsOf(_)
\* The PDFs of n pages.
PdfsOf(n) ==
    IF n = 0 THEN {<<>>}
    ELSE {Append(p, o) : p \in PdfsOf(n - 1), o \in PageOutcomes(n)}

Pdfs == UNION {PdfsOf(n) : n \in 0..MaxPages}

InitChunk ==
    /\ embeddings_data = <<>>
    /\ storage_file = NoFile
    /\ last = [op |-> "init"]
    /\ viewInit
    /\ concInit

\* processor.chunk_text(text, document_id) under every setting
PChunkText ==
    /\ last.op = "init"
    /\ \E text \in RawTexts :
       \E chunk_size \in ChunkSizes :
       \E chunk_overlap \in ChunkOverlaps :
          last' = [op |-> "chunk_text",
                   text |-> text,
                   chunk_size |-> chunk_size,
                   chunk_overlap |-> chunk_overlap,
                   sentences |-> split_into_sentences(clean_text(text)),
                   chunks |-> chunk_text(text, 1, chunk_size, chunk_overlap)]
    /\ UNCHANGED <<embeddings_data, storage_file, viewVars, concVars>>

\* processor.extract_text(path, 'pdf') and the chunk_text of its text, as
\* _process_document calls them.
PExtractPdf ==
    /\ last.op = "init"
    /\ \E pages \in Pdfs :
       \E chunk_size \in ChunkSizes :
          LET r == extract_from_pdf(pages)
          IN last' = [op |-> "extract_from_pdf",
                      pages |-> pages,
                      raised |-> r.raised,
                      text |-> r.text,
                      page_count |-> r.page_count,
                      chunk_size |-> chunk_size,
                      chunks |-> chunk_text(r.text, 1, chunk_size, 1)]
    /\ UNCHANGED <<embeddings_data, storage_file, viewVars, concVars>>

NextChunk ==
    \/ PChunkText
    \/ PExtractPdf

SpecChunk == InitChunk /\ [][NextChunk]_vars

\* ========================================================== SpecFixed
\* ChunkingStrategy.fixed_size_chunking, one call per behaviour and one
\* iteration of its while loop per step.  last holds the locals of the call.
MaxLoops == MaxText + 2

\* list[start:end] of Python: a negative index counts from the end, an index
\* past either end is clamped.
PyIndex(s, i) ==
    IF i < 0 THEN (IF i + Len(s) < 0 THEN 0 ELSE i + Len(s))
    ELSE Min(i, Len(s))

PySlice(s, start, end) == SubSeq(s, PyIndex(s, start) + 1, PyIndex(s, end))

\* The texts the function is called with: words and spaces.
FixedTexts == UNION {[1..n -> {"a", "b", " "}] : n \in 0..MaxText}

\* start = end - overlap if end < len(tokens) else end
NextStart(start, end, overlap, length) ==
    IF end < length THEN end - overlap ELSE end

\* The call: tokens = tokenizer.encode(text), chunks = [], start = 0.
FBegin ==
    /\ last.op = "init"
    /\ \E text \in FixedTexts :
       \E chunk_size \in ChunkSizes :
       \E overlap \in ChunkOverlaps :
          last' = [op |-> "fixed_size_chunking", pc |-> "while",
                   tokens |-> encode(text), chunk_size |-> chunk_size,
                   overlap |-> overlap, start |-> 0, chunks |-> <<>>]
    /\ UNCHANGED <<embeddings_data, storage_file, viewVars, concVars>>

\* One iteration of the while loop.  The list of chunks is kept to MaxLoops
\* entries, more than a call that returns ever appends.
FLoop ==
    /\ last.op = "fixed_size_chunking"
    /\ last.pc = "while"
    /\ last.start < Len(last.tokens)
    /\ Len(last.chunks) < MaxLoops
    /\ LET end == Min(last.start + last.chunk_size, Len(last.tokens))
           chunk_tokens == PySlice(last.tokens, last.start, end)
       IN last' = [last EXCEPT
                      !.chunks = Append(@, decode(chunk_tokens)),
                      !.start = NextStart(last.start, end, last.overlap,
                                          Len(last.tokens))]
    /\ UNCHANGED <<embeddings_data, storage_file, viewVars, concVars>>

\* The loop test fails: return chunks.
FReturn ==
    /\ last.op = "fixed_size_chunking"
    /\ last.pc = "while"
    /\ last.start >= Len(last.tokens)
    /\ last' = [last EXCEPT !.pc = "done"]
    /\ UNCHANGED <<embeddings_data, storage_file, viewVars, concVars>>

NextFixed ==
    \/ FBegin
    \/ FLoop
    \/ FReturn

\* A call that has begun keeps running.
SpecFixed ==
    InitChunk /\ [][NextFixed]_vars /\ WF_vars(FLoop) /\ WF_vars(FReturn)

\* ============================================================= views
\* The request handlers of views.py on one worker: a request is served to its
\* response before the next one is taken.  Every record-store operation, file
\* operation and capability call can fail.
Init ==
    /\ embeddings_data = <<>>
    /\ storage_file = NoFile
    /\ last = [op |-> "init", arg |-> <<>>, outcome |-> "returned",
               result |-> <<>>, flushed |-> <<>>]
    /\ viewInit
    /\ concInit

\* The texts without a word, of up to MaxBlank symbols.
BlankTexts == UNION {[1..n -> {" ", ".", PageMarker(1)}] : n \in 0..MaxBlank}

\* The text of n one-word sentences.
SentencesText(n) == [j \in 1..(2 * n - 1) |-> IF j % 2 = 1 THEN "a" ELSE "."]

\* The texts extract_text returns in an upload.
IngestTexts == BlankTexts \cup {SentencesText(n) : n \in 1..MaxChunks}

\* What chunk_text returns for a text that yields n chunks: indices 0..n-1.
\* The content of the chunks is left out of the upload: each is "a".
ChunksData(document_id, n) ==
    [j \in 1..n |->
        [text |-> "a", chunk_index |-> j - 1, page_numbers |-> <<1>>,
         token_count |-> 1, document_id |-> document_id]]

\* Leave the try block of upload_document for its except clause.
Raise(error) ==
    /\ pc' = "except"
    /\ req' = [req EXCEPT !.error = error]

\* The request after _process_document has called a capability.
Calling(name) == [req EXCEPT !.calls = Append(@, name)]

\* The call raised: the exception leaves _process_document (logged and
\* re-raised) for the except clause of upload_document.
RaiseIn(name, error) ==
    /\ pc' = "except"
    /\ req' = [Calling(name) EXCEPT !.error = error]

\* An extract_text whose failure is logged and not raised again.
ExtractionSwallowed ==
    /\ pc' = "save_page_count"
    /\ req' = [Calling("extract_text") EXCEPT !.error = "extraction failed"]

\* extract_text logs and re-raises whatever its extraction method raised, and
\* raises ValueError for a file type it does not know.
ExtractionFails == RaiseIn("extract_text", "extraction failed")

\* upload_document: the serializer check and the transaction.atomic block
\* that inserts the Document ('uploading' by default) and sets it to
\* 'processing'; both are committed together or not at all.
UploadBegin ==
    /\ pc = "idle"
    /\ next_id <= MaxDocs
    /\ \/ /\ documents' = [documents EXCEPT ![next_id] = "processing"]
          /\ next_id' = next_id + 1
          /\ req' = [NoRequest EXCEPT !.document = next_id]
          /\ pc' = "extract_text"
          /\ UNCHANGED http_response
       \/ /\ http_response' = Response("upload_document", 400,
                                       "Invalid document data")
          /\ UNCHANGED <<documents, next_id, req, pc>>
       \/ /\ http_response' = Response("upload_document", 500,
                                       "Failed to upload document")
          /\ UNCHANGED <<documents, next_id, req, pc>>
    /\ UNCHANGED <<error_message, chunk_rows, storeVars, concVars>>

\* _process_document: processor.extract_text(...)
ExtractText ==
    /\ pc = "extract_text"
    /\ \/ \E text \in IngestTexts :
             /\ pc' = "save_page_count"
             /\ req' = [Calling("extract_text") EXCEPT !.text = text]
       \/ ExtractionFails
    /\ UNCHANGED <<documents, error_message, chunk_rows, next_id,
                   http_response,
                   storeVars, concVars>>

\* _process_document: document.page_count = page_count; document.save()
SavePageCount ==
    /\ pc = "save_page_count"
    /\ \/ /\ pc' = "chunk_text"
          /\ UNCHANGED req
       \/ Raise("save failed")
    /\ UNCHANGED <<documents, error_message, chunk_rows, next_id,
                   http_response,
                   storeVars, concVars>>

\* _process_document: chunks_data = processor.chunk_text(text, document.id)
\* under the settings of the process, and the check that it is not empty.
ChunkText ==
    /\ pc = "chunk_text"
    /\ \E chunk_size \in ChunkSizes :
       \E chunk_overlap \in ChunkOverlaps :
          LET n == Len(chunk_text(req.text, req.document, chunk_size,
                                  chunk_overlap))
          IN IF n = 0
             THEN /\ pc' = "except"
                  /\ req' = [Calling("chunk_text") EXCEPT
                               !.error = "No chunks generated from document"]
             ELSE /\ pc' = "add_chunks"
                  /\ req' = [Calling("chunk_text") EXCEPT
                               !.chunks_data = ChunksData(req.document, n)]
    /\ UNCHANGED <<documents, error_message, chunk_rows, next_id,
                   http_response,
                   storeVars, concVars>>

\* _process_document: embedding_ids = vector_store.add_chunks(chunks_data)
AddChunks ==
    /\ pc = "add_chunks"
    /\ \E response \in EmbedResponses(BatchTexts(req.chunks_data)) :
       \E outcome \in FlushOutcomes :
       \E torn \in TornChoices(StoreLoop(embeddings_data, req.chunks_data,
                     response.data,
                     Min(Len(response.data), Len(req.chunks_data))),
                     outcome) :
          LET r == add_chunks(embeddings_data, storage_file, req.chunks_data,
                              response, outcome, torn)
          IN /\ embeddings_data' = r.mem
             /\ storage_file' = r.disk
             /\ IF r.raised
                THEN RaiseIn("add_chunks", "embedding failed")
                ELSE /\ pc' = "bulk_create"
                     /\ req' = [Calling("add_chunks") EXCEPT
                                  !.embedding_ids = r.ids]
    /\ UNCHANGED <<last, documents, error_message, chunk_rows, next_id,
                   http_response,
                   concVars>>

\* The rows built from zip(chunks_data, embedding_ids).
ChunkObjects(document_id, chunks_data, embedding_ids) ==
    {[document |-> document_id,
      chunk_index |-> chunks_data[j].chunk_index,
      embedding_id |-> embedding_ids[j]] :
        j \in 1..Min(Len(chunks_data), Len(embedding_ids))}

\* _process_document: DocumentChunk.objects.bulk_create(chunk_objects), a
\* statement committed on its own.
BulkCreate ==
    /\ pc = "bulk_create"
    /\ \/ /\ chunk_rows' = chunk_rows \cup
                 ChunkObjects(req.document, req.chunks_data, req.embedding_ids)
          /\ pc' = "mark_processed"
          /\ UNCHANGED req
       \/ /\ Raise("bulk_create failed")
          /\ UNCHANGED chunk_rows
    /\ UNCHANGED <<documents, error_message, next_id, http_response,
                   storeVars, concVars>>

\* _process_document: document.status = 'processed';
\* document.error_message = None; document.save()
MarkProcessed ==
    /\ pc = "mark_processed"
    /\ \/ /\ documents' = [documents EXCEPT ![req.document] = "processed"]
          /\ error_message' = [error_message EXCEPT ![req.document] = ""]
          /\ pc' = "respond"
          /\ UNCHANGED req
       \/ /\ Raise("save failed")
          /\ UNCHANGED <<documents, error_message>>
    /\ UNCHANGED <<chunk_rows, next_id, http_response, storeVars, concVars>>

\* upload_document: the 201 response is built, inside the try block, from
\* DocumentSerializer(document).data, which reads the record store.
Respond ==
    /\ pc = "respond"
    /\ \/ /\ http_response' = Response("upload_document", 201, "")
          /\ pc' = "idle"
          /\ req' = NoRequest
       \/ /\ Raise("serialization failed")
          /\ UNCHANGED http_response
    /\ UNCHANGED <<documents, error_message, chunk_rows, next_id, storeVars,
                   concVars>>

\* An except clause whose failing document.save() is not caught by an outer
\* clause: the exception leaves upload_document.
ExceptEscapes ==
    /\ pc = "except"
    /\ \/ /\ documents' = [documents EXCEPT ![req.document] = "error"]
          /\ error_message' = [error_message EXCEPT
                                 ![req.document] = req.error]
          /\ http_response' = Response("upload_document", 500, req.error)
          /\ pc' = "idle"
       \/ /\ pc' = "escaped"
          /\ UNCHANGED <<documents, error_message, http_response>>
    /\ req' = NoRequest
    /\ UNCHANGED <<chunk_rows, next_id, storeVars, concVars>>

\* upload_document: except Exception as e: document.status = 'error';
\* document.error_message = str(e); document.save().  A save that fails
\* again reaches the outer except clause.
Except ==
    /\ pc = "except"
    /\ \/ /\ documents' = [documents EXCEPT ![req.document] = "error"]
          /\ error_message' = [error_message EXCEPT
                                 ![req.document] = req.error]
          /\ http_response' = Response("upload_document", 500, req.error)
       \/ /\ http_response' = Response("upload_document", 500,
                                       "Failed to upload document")
          /\ UNCHANGED <<documents, error_message>>
    /\ pc' = "idle"
    /\ req' = NoRequest
    /\ UNCHANGED <<chunk_rows, next_id, storeVars, concVars>>

\* delete_document: Document.objects.get(id=document_id), then
\* vector_store.delete_document_chunks(document_id).
DeleteBegin ==
    /\ pc = "idle"
    /\ \E document_id \in DocIds :
          IF documents[document_id] \in {"absent", "deleted"}
          THEN /\ http_response' = Response("delete_document", 404,
                                            "Document not found")
               /\ UNCHANGED <<pc, req, embeddings_data, storage_file>>
          ELSE \E outcome \in FlushOutcomes :
               \E torn \in TornChoices(SelectSeq(embeddings_data,
                             LAMBDA e : e.data.document_id # document_id),
                             outcome) :
                  LET r == delete_document_chunks(embeddings_data,
                               storage_file, document_id, outcome, torn)
                  IN /\ embeddings_data' = r.mem
                     /\ storage_file' = r.disk
                     /\ pc' = "remove_file"
                     /\ req' = [NoRequest EXCEPT !.document = document_id,
                                                 !.before = embeddings_data]
                     /\ UNCHANGED http_response
    /\ UNCHANGED <<last, documents, error_message, chunk_rows, next_id,
                   concVars>>

\* delete_document: os.remove(document.file_path.path)
RemoveFile ==
    /\ pc = "remove_file"
    /\ \/ /\ pc' = "delete_row"
          /\ UNCHANGED <<req, http_response>>
       \/ /\ http_response' = Response("delete_document", 500,
                                       "Failed to delete document")
          /\ pc' = "idle"
          /\ req' = NoRequest
    /\ UNCHANGED <<documents, error_message, chunk_rows, next_id, storeVars,
                   concVars>>

\* delete_document: document.delete(), which cascades to the chunk rows.
DeleteRow ==
    /\ pc = "delete_row"
    /\ \/ /\ documents' = [documents EXCEPT ![req.document] = "deleted"]
          /\ error_message' = [error_message EXCEPT ![req.document] = ""]
          /\ chunk_rows' = {c \in chunk_rows : c.document # req.document}
          /\ http_response' = Response("delete_document", 200, "")
       \/ /\ http_response' = Response("delete_document", 500,
                                       "Failed to delete document")
          /\ UNCHANGED <<documents, error_message, chunk_rows>>
    /\ pc' = "idle"
    /\ req' = NoRequest
    /\ UNCHANGED <<next_id, storeVars, concVars>>

\* vector_store.reset_collection(), called between two requests.
ResetCollection ==
    /\ pc = "idle"
    /\ \E outcome \in FlushOutcomes :
       \E torn \in TornChoices(<<>>, outcome) :
          LET r == reset_collection(storage_file, outcome, torn)
          IN /\ embeddings_data' = r.mem
             /\ storage_file' = r.disk
    /\ UNCHANGED <<last, viewVars, concVars>>

\* The worker process is restarted between two requests.
Restart ==
    /\ pc = "idle"
    /\ embeddings_data' = load_embeddings(storage_file)
    /\ UNCHANGED <<storage_file, last, viewVars, concVars>>

Next ==
    \/ UploadBegin
    \/ ExtractText
    \/ SavePageCount
    \/ ChunkText
    \/ AddChunks
    \/ BulkCreate
    \/ MarkProcessed
    \/ Respond
    \/ Except
    \/ DeleteBegin
    \/ RemoveFile
    \/ DeleteRow
    \/ ResetCollection
    \/ Restart

Spec == Init /\ [][Next]_vars

\* ========================================================== SpecQuery
\* query_document, one request per behaviour, on every state the ingest,
\* delete and reset requests can leave behind.

\* -------------------------------------------------- generation capability
\* What client.chat.completions.create can do: raise, or return a message
\* whose content is a JSON object, a JSON value that is no object, or text
\* that is not JSON.
Completions ==
    {[ok |-> FALSE, content |-> ""]} \cup
    {[ok |-> TRUE, content |-> c] : c \in {"object", "array", "not json"}}

\* json.loads(response.choices[0].message.content)
JsonLoads(content) ==
    CASE content = "object" ->
            [raised |-> FALSE, type |-> "dict",
             value |-> [answer |-> "an answer", confidence |-> 1,
                        reasoning |-> "a reason"]]
      [] content = "array" ->
            [raised |-> FALSE, type |-> "list", value |-> <<>>]
      [] OTHER -> [raised |-> TRUE, type |-> "", value |-> <<>>]

\* LLMService._format_sources; the model's texts are shorter than the
\* preview, and its similarities have at most three decimals.
format_sources(chunks) ==
    [j \in 1..Len(chunks) |->
        [chunk_index |-> chunks[j].chunk_index,
         page_numbers |-> chunks[j].page_numbers,
         text_preview |-> chunks[j].text,
         similarity |-> chunks[j].similarity,
         token_count |-> chunks[j].token_count]]

\* The dict the except clause of generate_answer returns.
FallbackAnswer ==
    [answer |-> "I apologize, but I encountered an error",
     confidence |-> 0, sources |-> <<>>]

\* generate_answer with its except clause removed: a failure is raised to
\* the caller.
generate_answer_raising(question, context_chunks, completion) ==
    LET parsed == JsonLoads(completion.content)
    IN IF ~completion.ok \/ parsed.raised \/ parsed.type # "dict"
       THEN [raised |-> TRUE, value |-> <<>>]
       ELSE [raised |-> FALSE,
             value |-> [answer |-> parsed.value.answer,
                        confidence |-> parsed.value.confidence,
                        reasoning |-> parsed.value.reasoning,
                        sources |-> format_sources(context_chunks)]]

\* LLMService.generate_answer: the completion call, json.loads and
\* result['sources'] = ... (a TypeError on a value that is no dict) run inside
\* try/except Exception, which returns the fallback dict.
generate_answer(question, context_chunks, completion) ==
    LET parsed == JsonLoads(completion.content)
    IN IF ~completion.ok \/ parsed.raised \/ parsed.type # "dict"
       THEN [raised |-> FALSE, value |-> FallbackAnswer]
       ELSE [raised |-> FALSE,
             value |-> [answer |-> parsed.value.answer,
                        confidence |-> parsed.value.confidence,
                        reasoning |-> parsed.value.reasoning,
                        sources |-> format_sources(context_chunks)]]

\* ------------------------------------------------------------ the request
\* The locals of query_document, and calls: the capability calls it has made.
QueryRequest(document_id, question, num_chunks) ==
    [document |-> document_id, question |-> question,
     num_chunks |-> num_chunks, similar_chunks |-> <<>>, calls |-> <<>>]

\* No query has been received yet.
NoQuery == QueryRequest(0, "", 0)

ErrorResponse(status, error, details) ==
    [view |-> "query_document", status |-> status, success |-> FALSE,
     error |-> error, details |-> details]

NotReady(status) == "Document is not ready for querying. Status: " \o status

\* A wrong test of "if not similar_chunks": never true.
NeverEmpty(similar_chunks) == FALSE

\* if not similar_chunks
NoRelevantContent(similar_chunks) == similar_chunks = <<>>

\* The states a Document row can be in between two requests.
DocStates == {"absent", "processing", "processed", "error", "deleted"}

RECURSIVE StoreOfDocuments(_, _)
\* The mapping holding, for each document d <= n, its first k[d] chunks.
StoreOfDocuments(k, n) ==
    IF n = 0 THEN <<>>
    ELSE LET chunks == ChunksData(n, k[n])
         IN StoreLoop(StoreOfDocuments(k, n - 1), chunks,
                      FullResponse(BatchTexts(chunks)).data, Len(chunks))

\* Documents are numbered in upload order; a processed Document has its chunk
\* rows; the store holds all records of a Document, the first few of them
\* (an add_chunks that raised) or none (reset_collection, a failed delete, a
\* lost flush).
InitQuery ==
    /\ documents \in {f \in [DocIds -> DocStates] :
                        \A d, e \in DocIds :
                            (f[d] = "absent" /\ e > d) => f[e] = "absent"}
    /\ \E k \in [DocIds -> 0..MaxChunks] :
          /\ \A d \in DocIds : documents[d] = "absent" => k[d] = 0
          /\ embeddings_data = StoreOfDocuments(k, MaxDocs)
          /\ chunk_rows = UNION {
                 {[document |-> d, chunk_index |-> i,
                   embedding_id |-> chunk_id(d, i)] :
                      i \in 0..(IF k[d] = 0 THEN 0 ELSE k[d] - 1)} :
                 d \in {e \in DocIds : documents[e] = "processed"}}
    /\ storage_file = IF embeddings_data = <<>> THEN NoFile
                      ELSE WholeFile(embeddings_data)
    /\ error_message = [d \in DocIds |->
                          IF documents[d] = "error" THEN "extraction failed"
                          ELSE ""]
    /\ next_id = 1 + Cardinality({d \in DocIds : documents[d] # "absent"})
    /\ pc = "idle"
    /\ req = NoQuery
    /\ http_response = NoResponse
    /\ last = Idle
    /\ concInit

QueryFrame ==
    UNCHANGED <<documents, error_message, chunk_rows, next_id, storeVars,
                concVars>>

\* query_document, except Exception: the 500 response.
QueryFails(request) ==
    /\ http_response' = ErrorResponse(500, "Failed to process query", {})
    /\ pc' = "idle"
    /\ req' = request

\* A status test that lets every existing Document through.
AnyStatusReady(status) == status \notin {"absent", "deleted"}

\* document.status != 'processed', negated: the test of
\* validate_document_id and of query_document.
ReadyForQuery(status) == status = "processed"

\* QueryRequestSerializer.validate_document_id on a Document row in this
\* status: the field's error, "" for none.
validate_document_id(status) ==
    IF status \in {"absent", "deleted"} THEN "Document not found."
    ELSE IF ~ReadyForQuery(status) THEN NotReady(status)
    ELSE ""

\* query_document: QueryRequestSerializer(data=request.data).is_valid().  The
\* fields are validated in turn and their errors collected: document_id, whose
\* validate_document_id reads the Document, then question.  The record
\* store answers the read of the row, here as in delete_document: the row or
\* DoesNotExist.
QueryValidate ==
    /\ pc = "idle"
    /\ http_response = NoResponse
    /\ \E document_id \in DocIds :
       \E num_chunks \in 1..MaxChunks :
       \E question \in {"a", ""} :
          LET request == QueryRequest(document_id, question, num_chunks)
              errors ==
                  ({validate_document_id(documents[document_id])} \ {""})
                  \cup (IF question = ""
                        THEN {"question: This field may not be blank."}
                        ELSE {})
          IN IF errors # {}
             THEN /\ http_response' = ErrorResponse(400,
                                          "Invalid query data", errors)
                  /\ pc' = "idle"
                  /\ req' = request
             ELSE /\ pc' = "query_get"
                  /\ req' = request
                  /\ UNCHANGED http_response
    /\ QueryFrame

\* query_document: Document.objects.get(id=document_id) and the status test.
QueryGet ==
    /\ pc = "query_get"
    /\ IF documents[req.document] \in {"absent", "deleted"}
       THEN /\ http_response' = ErrorResponse(404, "Document not found", {})
            /\ pc' = "idle"
            /\ UNCHANGED req
       ELSE IF ~ReadyForQuery(documents[req.document])
       THEN /\ http_response' = ErrorResponse(400,
                   NotReady(documents[req.document]), {})
            /\ pc' = "idle"
            /\ UNCHANGED req
       ELSE /\ pc' = "query_search"
            /\ UNCHANGED <<req, http_response>>
    /\ QueryFrame

\* query_document: vector_store.search_similar_chunks(...) and the test of
\* an empty result.
QuerySearch ==
    /\ pc = "query_search"
    /\ \E response \in EmbedResponses(<<req.question>>) :
          LET r == search_similar_chunks(embeddings_data, req.question,
                                         req.document, req.num_chunks,
                                         response)
              request == [req EXCEPT
                  !.similar_chunks = r.chunks,
                  !.calls = Append(@, [name |-> "search_similar_chunks",
                                       raised |-> r.raised,
                                       result |-> r.chunks])]
          IN IF r.raised
             THEN QueryFails(request)
             ELSE IF NoRelevantContent(r.chunks)
             THEN /\ http_response' = ErrorResponse(404,
                         "No relevant content found for your question", {})
                  /\ pc' = "idle"
                  /\ req' = request
             ELSE /\ pc' = "query_generate"
                  /\ req' = request
                  /\ UNCHANGED http_response
    /\ QueryFrame

\* query_document: llm_service.generate_answer(...) and the 200 response.
QueryGenerate ==
    /\ pc = "query_generate"
    /\ \E completion \in Completions :
          LET llm_response == generate_answer(req.question,
                                              req.similar_chunks, completion)
              request == [req EXCEPT
                  !.calls = Append(@, [name |-> "generate_answer",
                                       context_chunks |-> req.similar_chunks,
                                       completion |-> completion])]
              value == llm_response.value
          IN IF llm_response.raised
             THEN QueryFails(request)
             ELSE /\ http_response' =
                        [view |-> "query_document", status |-> 200,
                         success |-> TRUE, error |-> "", details |-> {},
                         answer |-> value.answer,
                         confidence |-> value.confidence,
                         reasoning |-> IF "reasoning" \in DOMAIN value
                                       THEN value.reasoning ELSE "",
                         sources |-> value.sources,
                         chunks_used |-> Len(req.similar_chunks)]
                  /\ pc' = "idle"
                  /\ req' = request
    /\ QueryFrame

NextQuery ==
    \/ QueryValidate
    \/ QueryGet
    \/ QuerySearch
    \/ QueryGenerate

SpecQuery == InitQuery /\ [][NextQuery]_vars

\* ======================================================== SpecRequest
\* One request of any of the three views, on every state the requests before
\* it can have left, with every outcome of the operations it calls.

\* POST /api/documents/upload/ is the one request of the behaviour.
UploadRequest == http_response = NoResponse /\ UploadBegin

\* DELETE /api/documents/{id}/ is the one request of the behaviour.
DeleteRequest == http_response = NoResponse /\ DeleteBegin

NextRequest ==
    \/ UploadRequest
    \/ ExtractText
    \/ SavePageCount
    \/ ChunkText
    \/ AddChunks
    \/ BulkCreate
    \/ MarkProcessed
    \/ Respond
    \/ Except
    \/ DeleteRequest
    \/ RemoveFile
    \/ DeleteRow
    \/ QueryValidate
    \/ QueryGet
    \/ QuerySearch
    \/ QueryGenerate

SpecRequest == InitQuery /\ [][NextRequest]_vars

\* ========================================================== SpecConc
\* VectorStore methods called at the same time.  Each thread runs one method;
\* threads of one worker process share that process's vector_store (the
\* module-level instance), worker processes each hold their own and share
\* only the file.  No method takes a lock, so a step is one dictionary or
\* file operation.  The embedding calls and the file operations succeed here.
Threads == 1..MaxThreads
Procs == {1, 2}

AddOp(document_id, n) ==
    [name |-> "add_chunks", document_id |-> document_id,
     chunks |-> ChunksData(document_id, n)]

DeleteOp(document_id) ==
    [name |-> "delete_document_chunks", document_id |-> document_id,
     chunks |-> <<>>]

ResetOp == [name |-> "reset_collection", document_id |-> 0, chunks |-> <<>>]

SearchOp(document_id) ==
    [name |-> "search_similar_chunks", document_id |-> document_id,
     chunks |-> <<>>]

StatsOp == [name |-> "get_collection_stats", document_id |-> 0,
            chunks |-> <<>>]

\* Thread t adds or deletes the chunks of its own document.
ThreadOps(t) ==
    {AddOp(t, n) : n \in 1..MaxChunks}
    \cup {DeleteOp(t), ResetOp, StatsOp}
    \cup {SearchOp(d) : d \in DocIds}

\* after: the threads whose method had returned when this one's read began.
ThreadStart(proc, op) ==
    [proc |-> proc, op |-> op, pc |-> "start", i |-> 0, seen |-> 0,
     keys |-> <<>>, detached |-> FALSE, frozen |-> <<>>,
     outcome |-> "", result |-> <<>>, after |-> {}]

InitConc ==
    /\ initial_store \in {s \in Stores({"a"}) : Len(s) <= 1}
    /\ storage_file = IF initial_store = <<>> THEN NoFile
                      ELSE WholeFile(initial_store)
    /\ worker_data = [p \in Procs |-> load_embeddings(storage_file)]
    /\ threads \in {th \in [Threads -> UNION {{ThreadStart(p, op) :
                                   op \in ThreadOps(t), p \in Procs} :
                                       t \in Threads}] :
                      /\ th[1].proc = 1
                      /\ \A t \in Threads : th[t].op \in ThreadOps(t)}
    /\ embeddings_data = <<>>
    /\ last = Idle
    /\ viewInit

Step(t, new) == threads' = [threads EXCEPT ![t] = new]

Finish(th, outcome, result) ==
    [th EXCEPT !.pc = "done", !.outcome = outcome, !.result = result]

\* add_chunks: the embeddings.create call returns.
CAddEmbed(t) ==
    /\ threads[t].pc = "start"
    /\ threads[t].op.name = "add_chunks"
    /\ Step(t, [threads[t] EXCEPT !.pc = "store", !.i = 1])
    /\ UNCHANGED <<worker_data, storage_file>>

\* add_chunks: self.embeddings_data[chunk_id] = {...} for chunk i.
CAddStore(t) ==
    LET th == threads[t]
        c == th.op.chunks[th.i]
    IN /\ th.pc = "store"
       /\ worker_data' = [worker_data EXCEPT ![th.proc] =
              DictSet(@, chunk_id(c.document_id, c.chunk_index),
                      StoredRecord(c, embedding(c.text)))]
       /\ Step(t, IF th.i = Len(th.op.chunks)
                  THEN [th EXCEPT !.pc = "flush_open"]
                  ELSE [th EXCEPT !.i = th.i + 1])
       /\ UNCHANGED storage_file

\* delete_document_chunks: the loop that collects chunks_to_delete.
CDeleteScan(t) ==
    LET th == threads[t]
        own == SelectSeq(worker_data[th.proc],
                         LAMBDA e : e.data.document_id = th.op.document_id)
    IN /\ th.pc = "start"
       /\ th.op.name = "delete_document_chunks"
       /\ Step(t, [th EXCEPT
                     !.keys = [j \in 1..Len(own) |-> own[j].id],
                     !.pc = IF own = <<>> THEN "flush_open" ELSE "del"])
       /\ UNCHANGED <<worker_data, storage_file>>

\* delete_document_chunks: del self.embeddings_data[chunk_id]; KeyError when
\* another thread removed the key first.
CDeleteDel(t) ==
    LET th == threads[t]
        k == Head(th.keys)
    IN /\ th.pc = "del"
       /\ IF k \in DictKeys(worker_data[th.proc])
          THEN /\ worker_data' = [worker_data EXCEPT ![th.proc] =
                                     DictDel(@, k)]
               /\ Step(t, [th EXCEPT
                             !.keys = Tail(th.keys),
                             !.pc = IF Tail(th.keys) = <<>>
                                    THEN "flush_open" ELSE "del"])
          ELSE /\ Step(t, Finish(th, "raised", "KeyError"))
               /\ UNCHANGED worker_data
       /\ UNCHANGED storage_file

\* The dict object thread th iterates: the one self.embeddings_data named
\* when the iteration began.
Iterated(th) == IF th.detached THEN th.frozen ELSE worker_data[th.proc]

\* reset_collection: self.embeddings_data = {} binds the name to a new dict;
\* an iteration already running in the process keeps the old object, which
\* nothing changes any more.
CReset(t) ==
    /\ threads[t].pc = "start"
    /\ threads[t].op.name = "reset_collection"
    /\ worker_data' = [worker_data EXCEPT ![threads[t].proc] = <<>>]
    /\ threads' = [u \in Threads |->
          IF u = t THEN [threads[t] EXCEPT !.pc = "flush_open"]
          ELSE IF /\ threads[u].proc = threads[t].proc
                  /\ threads[u].pc \in {"iterate", "flush_write"}
                  /\ ~threads[u].detached
               THEN [threads[u] EXCEPT
                        !.detached = TRUE,
                        !.frozen = worker_data[threads[t].proc]]
               ELSE threads[u]]
    /\ UNCHANGED storage_file

\* _save_embeddings: open(path, 'w') truncates the file and json.dump starts
\* to iterate the dict.
CFlushOpen(t) ==
    LET th == threads[t]
    IN /\ th.pc = "flush_open"
       /\ storage_file' = [exists |-> TRUE, text |-> <<>>, closed |-> FALSE]
       /\ Step(t, [th EXCEPT !.pc = "flush_write",
                             !.seen = Len(worker_data[th.proc])])
       /\ UNCHANGED worker_data

MethodResult(th) ==
    CASE th.op.name = "add_chunks" -> ChunkIds(th.op.chunks)
      [] th.op.name = "delete_document_chunks" -> Len(th.keys) > 0
      [] OTHER -> TRUE

\* _save_embeddings: json.dump finishes and the file is closed, or the dict
\* changed size under the iteration: RuntimeError, swallowed, the file is
\* left as it is.  The method returns either way.
CFlushWrite(t) ==
    LET th == threads[t]
    IN /\ th.pc = "flush_write"
       /\ storage_file' = IF Len(Iterated(th)) = th.seen
                          THEN WholeFile(Iterated(th))
                          ELSE storage_file
       /\ Step(t, Finish(th, "returned", MethodResult(th)))
       /\ UNCHANGED worker_data

\* search_similar_chunks / get_collection_stats: len() and the start of the
\* iteration over self.embeddings_data.
CReadBegin(t) ==
    LET th == threads[t]
    IN /\ th.pc = "start"
       /\ th.op.name \in {"search_similar_chunks", "get_collection_stats"}
       /\ Step(t, [th EXCEPT !.pc = "iterate",
                             !.seen = Len(worker_data[th.proc]),
                             !.after = {v \in Threads :
                                           threads[v].pc = "done"}])
       /\ UNCHANGED <<worker_data, storage_file>>

\* search_similar_chunks: the iteration ends; RuntimeError ("dictionary
\* changed size during iteration") is re-raised.
CSearchEnd(t) ==
    LET th == threads[t]
        m == Iterated(th)
    IN /\ th.pc = "iterate"
       /\ th.op.name = "search_similar_chunks"
       /\ Step(t, IF Len(m) # th.seen
                  THEN Finish(th, "raised", "RuntimeError")
                  ELSE Finish(th, "returned",
                           search_similar_chunks(m, "a", th.op.document_id,
                               MaxChunks + 1, FullResponse(<<"a">>)).chunks))
       /\ UNCHANGED <<worker_data, storage_file>>

\* get_collection_stats: the iteration ends; on RuntimeError it returns {}.
CStatsEnd(t) ==
    LET th == threads[t]
        m == Iterated(th)
    IN /\ th.pc = "iterate"
       /\ th.op.name = "get_collection_stats"
       /\ Step(t, IF Len(m) # th.seen
                  THEN Finish(th, "returned", <<>>)
                  ELSE Finish(th, "returned",
                           [get_collection_stats(m) EXCEPT
                               !.total_chunks = th.seen]))
       /\ UNCHANGED <<worker_data, storage_file>>

ConcFrame == UNCHANGED <<embeddings_data, last, viewVars, initial_store>>

NextConc ==
    \/ \E t \in Threads : CAddEmbed(t) /\ ConcFrame
    \/ \E t \in Threads : CAddStore(t) /\ ConcFrame
    \/ \E t \in Threads : CDeleteScan(t) /\ ConcFrame
    \/ \E t \in Threads : CDeleteDel(t) /\ ConcFrame
    \/ \E t \in Threads : CReset(t) /\ ConcFrame
    \/ \E t \in Threads : CFlushOpen(t) /\ ConcFrame
    \/ \E t \in Threads : CFlushWrite(t) /\ ConcFrame
    \/ \E t \in Threads : CReadBegin(t) /\ ConcFrame
    \/ \E t \in Threads : CSearchEnd(t) /\ ConcFrame
    \/ \E t \in Threads : CStatsEnd(t) /\ ConcFrame

SpecConc == InitConc /\ [][NextConc]_vars

\* ============================================================ claims
StoreIndexes(m, document_id) ==
    {m[j].data.chunk_index :
        j \in {k \in 1..Len(m) : m[k].data.document_id = document_id}}

RowIndexes(document_id) ==
    {c.chunk_index : c \in {r \in chunk_rows : r.document = document_id}}

\* C1 (Spec): between requests, every 'processed' Document's DocumentChunk
\* rows and the store records of its id carry the same chunk indices, and
\* each row's embedding_id is the key of the store record with the row's
\* (document id, chunk index).  Stated as claimed; the code violates it.
C1_ProcessedChunksMatchStore ==
    pc = "idle" =>
        \A d \in DocIds :
            documents[d] = "processed" =>
                /\ RowIndexes(d) = StoreIndexes(embeddings_data, d)
                /\ \A c \in chunk_rows :
                      c.document = d =>
                          /\ c.embedding_id \in DictKeys(embeddings_data)
                          /\ DictGet(embeddings_data,
                                     c.embedding_id).document_id = d
                          /\ DictGet(embeddings_data,
                                     c.embedding_id).chunk_index
                                = c.chunk_index

\* C2 (Spec): a Document whose ingest ended in status 'error' has no record
\* in the vector store.  Stated as claimed; the code violates it.
C2_ErrorLeavesNoEmbeddings ==
    \A d \in DocIds :
        documents[d] = "error" => StoreIndexes(embeddings_data, d) = {}

\* C3 (Spec): a Document in status 'error' or 'uploading' owns no
\* DocumentChunk rows.  Stated as claimed; the code violates it.
C3_ChunkRowsOnlyWhileProcessing ==
    \A d \in DocIds :
        documents[d] \in {"error", "uploading"} => RowIndexes(d) = {}

\* The status moves the claim allows; deleting the row ends any status.
AllowedStatusMoves ==
    {<<"absent", "processing">>,
     <<"processing", "processed">>,
     <<"processing", "error">>,
     <<"processing", "deleted">>,
     <<"processed", "deleted">>,
     <<"error", "deleted">>}

\* C4 (Spec): a Document's status only moves (uploading ->) processing ->
\* processed or processing -> error; 'processed' and 'error' change no more.
\* Stated as claimed; the code violates it.
C4_StatusMovesForwardOnly ==
    [][\A d \in DocIds :
          documents'[d] # documents[d] =>
              <<documents[d], documents'[d]>> \in AllowedStatusMoves]_vars

\* C5 (SpecStore): when add_chunks raises, the in-memory mapping and the
\* file are what they were before the call.  Stated as claimed; the code
\* violates it.
C5_AddChunksAllOrNothing ==
    [][(last'.op = "add_chunks" /\ last'.outcome = "raised") =>
          (embeddings_data' = embeddings_data /\
           storage_file' = storage_file)]_vars

\* C6 (SpecStore): after add_chunks, delete_document_chunks or
\* reset_collection has returned, the file holds the in-memory mapping: a
\* restart loads exactly that mapping.  Stated as claimed; the code violates
\* it.
C6_ReturnMeansFlushed ==
    (/\ last.op \in {"add_chunks", "delete_document_chunks",
                     "reset_collection"}
     /\ last.outcome = "returned")
        => load_embeddings(storage_file) = embeddings_data

\* C7 (SpecStore): after a crash during a flush, the next process loads the
\* whole mapping that was durable before the flush or the whole mapping
\* being flushed.  Stated as claimed; the code violates it.
C7_CrashDuringFlushKeepsStore ==
    [][last'.outcome = "crashed" =>
          embeddings_data' \in {load_embeddings(storage_file),
                                last'.flushed}]_vars

Mutating(op) ==
    op.name \in {"add_chunks", "delete_document_chunks", "reset_collection"}

\* What a mutating method does to the mapping when it runs alone.
ApplyOp(op, m) ==
    CASE op.name = "add_chunks" ->
            StoreLoop(m, op.chunks, FullResponse(BatchTexts(op.chunks)).data,
                      Len(op.chunks))
      [] op.name = "delete_document_chunks" ->
            SelectSeq(m, LAMBDA e : e.data.document_id # op.document_id)
      [] op.name = "reset_collection" -> <<>>
      [] OTHER -> m

RECURSIVE ApplyInOrder(_, _, _)
\* The mapping after the first n threads of order ran one after the other.
ApplyInOrder(order, n, m) ==
    IF n = 0 THEN m
    ELSE ApplyOp(threads[order[n]].op, ApplyInOrder(order, n - 1, m))

\* The orders in which some of the threads ts can run.
Orders(ts) ==
    {o \in UNION {[1..n -> ts] : n \in 0..Cardinality(ts)} :
        \A j, k \in 1..Len(o) : j # k => o[j] # o[k]}

Items(m) == {<<m[j].id, m[j].data>> : j \in 1..Len(m)}

AllDone == threads # <<>> /\ \A t \in DOMAIN threads : threads[t].pc = "done"

\* C8 (SpecConc): when concurrent mutating calls have all finished, the file
\* holds the result of running them one after the other in some order.
\* Stated as claimed; the code violates it.
C8_ConcurrentMutationsSerialized ==
    (AllDone /\ \A t \in DOMAIN threads : Mutating(threads[t].op)) =>
        \E o \in Orders(DOMAIN threads) :
            /\ Len(o) = Cardinality(DOMAIN threads)
            /\ Items(load_embeddings(storage_file))
                  = Items(ApplyInOrder(o, Len(o), initial_store))

\* The mappings a reader may see: the initial one after some of the other
\* threads' mutating calls ran, whole, in some order.
Snapshots(reader) ==
    {ApplyInOrder(o, Len(o), initial_store) :
        o \in Orders({t \in DOMAIN threads :
                        t # reader /\ Mutating(threads[t].op)})}

ResultIds(result) == {result[j].id : j \in 1..Len(result)}

\* C9 (SpecConc): a search running beside an in-flight mutating call returns
\* without error what it would return on the store before or after that
\* call, never part of its batch.  Stated as claimed; the code violates it.
C9_ReadsSeeConsistentSnapshot ==
    \A r \in DOMAIN threads :
        (threads[r].pc = "done" /\
         threads[r].op.name = "search_similar_chunks") =>
            /\ threads[r].outcome = "returned"
            /\ \E m \in Snapshots(r) :
                  ResultIds(threads[r].result) =
                      ResultIds(search_similar_chunks(m, "a",
                          threads[r].op.document_id, MaxChunks + 1,
                          FullResponse(<<"a">>)).chunks)

\* C10 (SpecSearch): every result search_similar_chunks(query, D, k) returns
\* is a stored record whose document_id is D.
C10_SearchStaysInDocument ==
    (last.op = "search_similar_chunks" /\ last.outcome = "returned") =>
        \A j \in 1..Len(last.result) :
            /\ last.result[j].id \in DictKeys(embeddings_data)
            /\ DictGet(embeddings_data, last.result[j].id).document_id
                  = last.arg.document_id

\* A search returned results while the store also held another document.
C10_Witness ==
    /\ last.op = "search_similar_chunks"
    /\ last.outcome = "returned"
    /\ Len(last.result) >= 1
    /\ \E j \in 1..Len(embeddings_data) :
          embeddings_data[j].data.document_id # last.arg.document_id

\* C11 (SpecSearch): the list search_similar_chunks returns is in
\* non-increasing similarity order, and results of equal similarity are in
\* ascending chunk_index order.  Stated as claimed; the code violates it.
C11_SearchOrderedTiesByIndex ==
    (last.op = "search_similar_chunks" /\ last.outcome = "returned") =>
        \A j, k \in 1..Len(last.result) :
            j < k =>
                /\ SimGeq(last.result[j].similarity,
                          last.result[k].similarity)
                /\ SimEq(last.result[j].similarity,
                         last.result[k].similarity)
                      => last.result[j].chunk_index
                            < last.result[k].chunk_index

\* The stored records of document_id.
RecordsOf(m, document_id) ==
    SelectSeq(m, LAMBDA e : e.data.document_id = document_id)

\* C12 (SpecSearch): search_similar_chunks(query, D, k) returns min(k, n)
\* results, n being the number of stored records of D, and no record of D
\* left out of the result scores strictly higher than a returned one.
C12_SearchReturnsTopK ==
    (last.op = "search_similar_chunks" /\ last.outcome = "returned") =>
        LET own == RecordsOf(embeddings_data, last.arg.document_id)
            query_embedding == embedding(last.arg.query)
        IN /\ Len(last.result) = Min(last.arg.num_results, Len(own))
           /\ \A j \in 1..Len(own) :
                 own[j].id \notin ResultIds(last.result) =>
                     \A k \in 1..Len(last.result) :
                         SimGeq(last.result[k].similarity,
                                cosine_similarity(query_embedding,
                                                  own[j].data.embedding))

\* A search returned fewer results than the document has records and left
\* out a record that scores strictly lower than a returned one.
C12_Witness ==
    /\ last.op = "search_similar_chunks"
    /\ last.outcome = "returned"
    /\ LET own == RecordsOf(embeddings_data, last.arg.document_id)
       IN /\ Len(last.result) >= 1
          /\ Len(last.result) < Len(own)
          /\ \E j \in 1..Len(own) :
                /\ own[j].id \notin ResultIds(last.result)
                /\ ~SimGeq(cosine_similarity(embedding(last.arg.query),
                                             own[j].data.embedding),
                           last.result[1].similarity)

\* The (document id, chunk index) pairs of a batch or of a mapping's records.
BatchPairs(chunks) ==
    {<<chunks[j].document_id, chunks[j].chunk_index>> : j \in 1..Len(chunks)}

StorePairs(m) ==
    {<<m[j].data.document_id, m[j].data.chunk_index>> : j \in 1..Len(m)}

\* No two items of the mapping share a (document id, chunk index) pair.
OneRecordPerPair(m) ==
    \A j, k \in 1..Len(m) :
        (/\ m[j].data.document_id = m[k].data.document_id
         /\ m[j].data.chunk_index = m[k].data.chunk_index) => j = k

\* C13 (SpecStore): add_chunks on a store that already holds a record for
\* every (document id, chunk index) of the batch, as a first call with these
\* ids leaves it, keeps one record per pair and the same total_chunks.
C13_ReAddOverwrites ==
    (/\ last.op = "add_chunks"
     /\ last.outcome = "returned"
     /\ OneRecordPerPair(last.before)
     /\ BatchPairs(last.arg) \subseteq StorePairs(last.before))
        => /\ OneRecordPerPair(embeddings_data)
           /\ StorePairs(embeddings_data) = StorePairs(last.before)
           /\ get_collection_stats(embeddings_data).total_chunks
                 = get_collection_stats(last.before).total_chunks

\* A second add of two chunks the store already held has returned.
C13_Witness ==
    /\ last.op = "add_chunks"
    /\ last.outcome = "returned"
    /\ Cardinality(BatchPairs(last.arg)) = 2
    /\ BatchPairs(last.arg) \subseteq StorePairs(last.before)
    /\ Len(embeddings_data) = 2

\* chunk_id gives distinct keys to distinct (document id, chunk index) pairs,
\* numbers of several digits included.
KeysDistinct ==
    \A d1, d2 \in 1..KeyRange : \A i1, i2 \in 0..KeyRange :
        chunk_id(d1, i1) = chunk_id(d2, i2) => (d1 = d2 /\ i1 = i2)

\* C14 (SpecStore): add_chunks returns one key per input chunk, in input
\* order; the key depends on (document_id, chunk_index) alone and differs for
\* different pairs; the record stored under it is that chunk's, and records
\* of documents not in the batch are left as they were.
C14_KeysPerChunkInOrder ==
    /\ last.op = "init" => KeysDistinct
    /\ (last.op = "add_chunks" /\ last.outcome = "returned") =>
          /\ Len(last.result) = Len(last.arg)
          /\ \A j \in 1..Len(last.arg) :
                /\ last.result[j] \in DictKeys(embeddings_data)
                /\ DictGet(embeddings_data, last.result[j]).document_id
                      = last.arg[j].document_id
                /\ DictGet(embeddings_data, last.result[j]).chunk_index
                      = last.arg[j].chunk_index
          /\ \A j, k \in 1..Len(last.arg) :
                (last.result[j] = last.result[k]) <=>
                    (/\ last.arg[j].document_id = last.arg[k].document_id
                     /\ last.arg[j].chunk_index = last.arg[k].chunk_index)
          /\ \A j \in 1..Len(last.before) :
                <<last.before[j].data.document_id,
                  last.before[j].data.chunk_index>> \notin BatchPairs(last.arg)
                    => \E k \in 1..Len(embeddings_data) :
                          embeddings_data[k] = last.before[j]

\* add_chunks returned the keys of a two-chunk batch of one document while
\* the store held a record of another document.
C14_Witness ==
    /\ last.op = "add_chunks"
    /\ last.outcome = "returned"
    /\ Len(last.result) = 2
    /\ last.result[1] # last.result[2]
    /\ \E j \in 1..Len(last.before) :
          last.before[j].data.document_id # last.arg[1].document_id

\* C15 (SpecStore): after delete_document_chunks(D) has returned, the store
\* holds no record of D, and the records of every other document, keys and
\* contents, are those it held before the call.
C15_DeleteRemovesOnlyDocument ==
    (last.op = "delete_document_chunks" /\ last.outcome = "returned") =>
        /\ RecordsOf(embeddings_data, last.arg) = <<>>
        /\ \A d \in DocIds \ {last.arg} :
              Items(RecordsOf(embeddings_data, d))
                  = Items(RecordsOf(last.before, d))

\* A delete removed the records of its document from a store that also held
\* another document's record.
C15_Witness ==
    /\ last.op = "delete_document_chunks"
    /\ last.outcome = "returned"
    /\ RecordsOf(last.before, last.arg) # <<>>
    /\ \E d \in DocIds \ {last.arg} : RecordsOf(embeddings_data, d) # <<>>

\* The number a Python bool counts as: True == 1, False == 0.
IntValue(v) == IF v THEN 1 ELSE 0

\* C16 (SpecStore): delete_document_chunks(D) returns the number of records
\* of D the store held before the call.  Stated as claimed; the code
\* violates it.
C16_DeleteReturnsCount ==
    (last.op = "delete_document_chunks" /\ last.outcome = "returned") =>
        IntValue(last.result) = Len(RecordsOf(last.before, last.arg))

\* The request of query_document has been answered.
QueryAnswered == pc = "idle" /\ http_response.view = "query_document"

CallNames(calls) == {calls[j].name : j \in 1..Len(calls)}

\* C17 (SpecQuery): a query for a Document in status 'processing' or 'error'
\* ('uploading' is never committed) calls neither search_similar_chunks nor
\* generate_answer, and is refused with status 400 and the not-ready
\* message of its status.
C17_QueryNotReadyRejected ==
    (/\ http_response.view = "query_document"
     /\ documents[req.document] \in {"uploading", "processing", "error"})
        => /\ req.calls = <<>>
           /\ pc = "idle"
           /\ ~http_response.success
           /\ http_response.status = 400
           /\ \/ NotReady(documents[req.document]) \in http_response.details
              \/ http_response.error = NotReady(documents[req.document])

\* A well-formed query for a Document that is not 'processed' was refused
\* with the not-ready message.
C17_Witness ==
    /\ QueryAnswered
    /\ req.question # ""
    /\ documents[req.document] \in {"processing", "error"}
    /\ RecordsOf(embeddings_data, req.document) # <<>>
    /\ http_response.status = 400
    /\ NotReady(documents[req.document]) \in http_response.details

\* The generation call failed: the capability raised, or its output is not a
\* JSON object.
GenerationFailed(call) ==
    \/ ~call.completion.ok
    \/ call.completion.content # "object"

\* C18 (SpecQuery): once generate_answer is called the query succeeds, and
\* when the generation failed the answer is the fallback one: confidence 0
\* and no sources.
C18_GenerationNeverFailsQuery ==
    \A j \in 1..Len(req.calls) :
        req.calls[j].name = "generate_answer" =>
            /\ QueryAnswered
            /\ http_response.status = 200
            /\ http_response.success
            /\ GenerationFailed(req.calls[j]) =>
                  /\ http_response.confidence = 0
                  /\ http_response.sources = <<>>
                  /\ http_response.answer = FallbackAnswer.answer

\* A query whose generation call failed was answered with the fallback.
C18_Witness ==
    /\ QueryAnswered
    /\ http_response.status = 200
    /\ \E j \in 1..Len(req.calls) :
          /\ req.calls[j].name = "generate_answer"
          /\ GenerationFailed(req.calls[j])
    /\ http_response.confidence = 0

\* C19 (SpecQuery): when the search of a query returns an empty list the
\* answer is the no-relevant-content 404 and generate_answer is not called;
\* every generate_answer call is given a non-empty passage list.
C19_EmptySearchSkipsGeneration ==
    \A j \in 1..Len(req.calls) :
        /\ (/\ req.calls[j].name = "search_similar_chunks"
            /\ ~req.calls[j].raised
            /\ req.calls[j].result = <<>>)
              => /\ QueryAnswered
                 /\ http_response.status = 404
                 /\ http_response.error
                       = "No relevant content found for your question"
                 /\ "generate_answer" \notin CallNames(req.calls)
        /\ req.calls[j].name = "generate_answer"
              => req.calls[j].context_chunks # <<>>

\* The search for a processed Document returned nothing and the query was
\* answered 404.
C19_Witness ==
    /\ QueryAnswered
    /\ documents[req.document] = "processed"
    /\ Len(req.calls) = 1
    /\ ~req.calls[1].raised
    /\ req.calls[1].result = <<>>
    /\ http_response.status = 404

\* extract_text raised in the upload being served and upload_document is about
\* to run its except clause.
ExtractionFailed == pc = "except" /\ req.error = "extraction failed"

\* No DocumentChunk row and no vector-store record belongs to document_id.
NothingWritten(document_id) ==
    /\ RowIndexes(document_id) = {}
    /\ StoreIndexes(embeddings_data, document_id) = {}

C22_ChunkIndexesDense ==
    last.op \in {"chunk_text", "extract_from_pdf"} =>
        \A j \in 1..Len(last.chunks) : last.chunks[j].chunk_index = j - 1

\* chunk_text returned three chunks or more.
C22_Witness ==
    /\ last.op = "chunk_text"
    /\ Len(last.chunks) >= 3

\* C23 as stated (SpecChunk): every chunk has at most chunk_size tokens,
\* counted again from its text, unless it is one sentence that alone has more
\* than chunk_size tokens.
C23_ChunksWithinSize ==
    last.op = "chunk_text" =>
        \A j \in 1..Len(last.chunks) :
            \/ Len(encode(last.chunks[j].text)) <= last.chunk_size
            \/ \E k \in 1..Len(last.sentences) :
                  /\ last.chunks[j].text = last.sentences[k]
                  /\ Len(encode(last.sentences[k])) > last.chunk_size

RECURSIVE Flat(_)
\* The concatenation of a sequence of sequences.
Flat(seqs) ==
    IF seqs = <<>> THEN <<>>
    ELSE Flat(SubSeq(seqs, 1, Len(seqs) - 1)) \o seqs[Len(seqs)]

Drop(s, k) == SubSeq(s, k + 1, Len(s))

SentenceTokens(sentences) ==
    [k \in 1..Len(sentences) |-> encode(sentences[k])]

\* The tokens of each chunk after the overlap tail chunk_text seeded it with:
\* what _get_overlap_text returns for the chunk before it.
Cores(chunks, chunk_overlap) ==
    [j \in 1..Len(chunks) |->
        IF j = 1 THEN encode(chunks[1].text)
        ELSE Drop(encode(chunks[j].text),
                  Len(encode(get_overlap_text(chunks[j - 1].text,
                                              chunk_overlap))))]

\* The numbers of tokens at which a sentence of the text ends.
SentenceEnds(sentences) ==
    {Len(Flat(SubSeq(SentenceTokens(sentences), 1, k))) :
        k \in 0..Len(sentences)}

\* C24 (SpecChunk): without the overlap tail each chunk after the first
\* starts with, the chunks in index order hold the sentences of the cleaned
\* text, token for token: every chunk holds whole sentences and at least one,
\* none is dropped, repeated or cut, whatever its length.
C24_CoresRebuildSentences ==
    last.op = "chunk_text" =>
        LET cores == Cores(last.chunks, last.chunk_overlap)
        IN /\ Flat(cores) = Flat(SentenceTokens(last.sentences))
           /\ \A j \in 1..Len(cores) :
                 /\ cores[j] # <<>>
                 /\ Len(Flat(SubSeq(cores, 1, j)))
                       \in SentenceEnds(last.sentences)

\* Two chunks, the second seeded with one token of overlap, and a sentence
\* longer than chunk_size among them.
C24_Witness ==
    /\ last.op = "chunk_text"
    /\ Len(last.chunks) = 2
    /\ last.chunk_overlap = 1
    /\ \E k \in 1..Len(last.sentences) :
          Len(encode(last.sentences[k])) > last.chunk_size

\* C25 as stated (SpecChunk): chunk i+1 starts with the last chunk_overlap
\* tokens of chunk i (all of chunk i when it has no more), and the sentence
\* that did not fit chunk i follows them.
C25_OverlapIsTailOfPrevious ==
    last.op = "chunk_text" =>
        \A j \in 1..(Len(last.chunks) - 1) :
            LET prev == encode(last.chunks[j].text)
                next == encode(last.chunks[j + 1].text)
                k == Min(Len(prev), last.chunk_overlap)
                toks == SentenceTokens(last.sentences)
                cores == Cores(last.chunks, last.chunk_overlap)
            IN /\ SubSeq(next, 1, k)
                     = SubSeq(prev, Len(prev) - k + 1, Len(prev))
               /\ \E n \in 1..Len(toks) :
                     /\ Len(Flat(SubSeq(toks, 1, n - 1)))
                           = Len(Flat(SubSeq(cores, 1, j)))
                     /\ SubSeq(Drop(next, k), 1, Len(toks[n])) = toks[n]

\* ------------------------------------------------------- PDF extraction
\* The pages the words of a text were extracted from.
PagesOfText(text) ==
    {n \in 1..MaxPages : \E i \in 1..Len(text) : text[i] = PageWord(n)}

\* C26 as stated (SpecChunk): each chunk of a text extracted from a PDF has
\* page_numbers that is not empty and lists exactly the pages its text comes
\* from.
C26_PageNumbersAreSourcePages ==
    last.op = "extract_from_pdf" =>
        \A j \in 1..Len(last.chunks) :
            LET page_numbers == last.chunks[j].page_numbers
            IN /\ page_numbers # <<>>
               /\ {page_numbers[i] : i \in 1..Len(page_numbers)}
                     = PagesOfText(last.chunks[j].text)

\* The pages of a PDF that extract_text() returned a non-blank text for, in
\* page order.
PagesWithText(pages) ==
    SelectSeq([n \in 1..Len(pages) |-> n],
              LAMBDA n : ~pages[n].raises /\ Strip(pages[n].text) # <<>>)

\* C27 (SpecChunk): whichever pages of a PDF raise in extract_text(),
\* _extract_from_pdf returns: page_count is the number of pages and the text
\* is, in page order, the marker and the text of each page that gave a
\* non-blank text, with nothing for the other pages.
C27_PdfSkipsFailingPages ==
    last.op = "extract_from_pdf" =>
        LET good == PagesWithText(last.pages)
        IN /\ ~last.raised
           /\ last.page_count = Len(last.pages)
           /\ last.text = Flat([j \in 1..Len(good) |->
                                  PageBlock(good[j], last.pages[good[j]].text)])

\* The first page raised and a later page gave its text.
C27_Witness ==
    /\ last.op = "extract_from_pdf"
    /\ Len(last.pages) >= 2
    /\ last.pages[1].raises
    /\ last.page_count = Len(last.pages)
    /\ \E i \in 1..Len(last.text) : last.text[i] = PageMarker(2)

\* ------------------------------------------------------ empty chunking
\* chunk_text has been called in the upload being served, on a text without
\* a word.
ChunkedBlankText ==
    /\ req.document # 0
    /\ "chunk_text" \in {req.calls[j] : j \in 1..Len(req.calls)}
    /\ \A j \in 1..Len(req.text) : req.text[j] \notin Words

\* The upload being served is about to run the except clause of
\* upload_document for a chunk_text that returned no chunk.
NoChunksGenerated ==
    pc = "except" /\ req.error = "No chunks generated from document"

ViewPositions ==
    {"idle", "extract_text", "save_page_count", "chunk_text", "add_chunks",
     "bulk_create", "mark_processed", "respond", "except", "remove_file",
     "delete_row", "query_get", "query_search", "query_generate"}

\* The response of one of the three views: a success, or an error response
\* that carries its error text.
ViewResponse(r) ==
    /\ r.view \in {"upload_document", "query_document", "delete_document"}
    /\ r.status \in {200, 201, 400, 404, 500}
    /\ r.status >= 400 => r.error # ""

\* C28 (SpecRequest): whatever the extraction, chunking, embedding,
\* generation, record-store and file operations of a request do, the view
\* is always at one of its statements, never left by an exception, and the
\* step that leaves it returns a response: a success, or an error response
\* with its error text.
C28_EveryRequestReturnsResponse ==
    /\ [](pc \in ViewPositions)
    /\ [](pc = "idle" => (http_response = NoResponse
                             \/ ViewResponse(http_response)))
    /\ [][(pc # "idle" /\ pc' = "idle") => ViewResponse(http_response')]_vars

\* An upload whose add_chunks raised was answered with the 500 response that
\* carries the detail.
C28_Witness ==
    /\ pc = "idle"
    /\ http_response = Response("upload_document", 500, "embedding failed")

\* ------------------------------------------------------- flush and load
\* What a new VectorStore() holds after a _save_embeddings of m that wrote
\* the whole file.
Reloaded(m) == load_embeddings(save_embeddings(m, NoFile, "ok", NoFile))

StoredUnder(id) ==
    embeddings_data[CHOOSE j \in 1..Len(embeddings_data) :
                        embeddings_data[j].id = id].data

\* C30 (SpecZero): a search over records and a query whose vectors can be
\* all zeros or empty returns and never raises; it returns the document's
\* records, as many as asked for, by non-increasing similarity; and the
\* similarity is 0 wherever the query's vector or the record's vector has
\* zero magnitude.
C30_ZeroMagnitudeGivesZero ==
    last.op = "search_similar_chunks" =>
        LET own == SelectSeq(embeddings_data,
                             LAMBDA e : e.data.document_id
                                           = last.arg.document_id)
            query_embedding == embedding(last.arg.query)
        IN /\ last.outcome = "returned"
           /\ Len(last.result) = Min(last.arg.num_results, Len(own))
           /\ \A j \in 1..Len(last.result) :
                 /\ \E k \in 1..Len(own) : own[k].id = last.result[j].id
                 /\ last.result[j].similarity.den > 0
                 /\ (ZeroMagnitude(query_embedding)
                       \/ ZeroMagnitude(StoredUnder(last.result[j].id).embedding))
                    => last.result[j].similarity = [num |-> 0, den |-> 1]
           /\ \A j, k \in 1..Len(last.result) :
                 j < k => SimGeq(last.result[j].similarity,
                                 last.result[k].similarity)

\* The document's first record has the empty vector and its second the
\* vector of the query: the search ranks the second first with similarity 1
\* and the first after it with similarity 0.
C30_Witness ==
    /\ last.op = "search_similar_chunks"
    /\ last.outcome = "returned"
    /\ last.arg.query = "a"
    /\ Len(embeddings_data) = 2
    /\ embeddings_data[1].data.document_id = last.arg.document_id
    /\ embeddings_data[1].data.embedding = <<>>
    /\ embeddings_data[2].data.embedding = <<1, 0>>
    /\ Len(last.result) = 2
    /\ last.result[1].id = embeddings_data[2].id
    /\ last.result[1].similarity = [num |-> 1, den |-> 1]
    /\ last.result[2].id = embeddings_data[1].id
    /\ last.result[2].similarity = [num |-> 0, den |-> 1]

\* ------------------------------------------------------- delete_document
\* The step on which delete_document returns its response after it has
\* called vector_store.delete_document_chunks.
DeleteReturns ==
    /\ pc \in {"remove_file", "delete_row"}
    /\ pc' = "idle"

\* C31 (Spec): when delete_document returns, either the response is the
\* success response and the Document, its DocumentChunk rows and its
\* vector-store records are all gone, or it is an error response and the
\* Document, its rows and the vector-store records the request found are all
\* still there.
C31_DeleteAllOrNothing ==
    [][DeleteReturns =>
          LET document_id == req.document
          IN IF http_response'.status = 200
             THEN /\ documents'[document_id] = "deleted"
                  /\ {c \in chunk_rows' : c.document = document_id} = {}
                  /\ RecordsOf(embeddings_data', document_id) = <<>>
             ELSE /\ documents'[document_id] = documents[document_id]
                  /\ chunk_rows' = chunk_rows
                  /\ RecordsOf(embeddings_data', document_id)
                        = RecordsOf(req.before, document_id)]_vars

\* ------------------------------------------------- query after an ingest
\* Thread u's search of a document has returned, and when it began every
\* other thread had returned: thread t from the add_chunks of the document,
\* which the store held no record of before, and none of them from a delete
\* of the document's chunks or a reset.  The search is a later query in
\* worker process threads[u].proc.
LaterQuery(t, u) ==
    /\ threads[t].op.name = "add_chunks"
    /\ threads[t].outcome = "returned"
    /\ RecordsOf(initial_store, threads[t].op.document_id) = <<>>
    /\ threads[u].op = SearchOp(threads[t].op.document_id)
    /\ threads[u].pc = "done"
    /\ threads[u].after = Threads \ {u}
    /\ \A v \in Threads \ {u} :
          /\ threads[v].op.name # "reset_collection"
          /\ threads[v].op # DeleteOp(threads[t].op.document_id)

\* C32 (SpecConc): once the ingest of a document with N chunks has returned,
\* a later query for it that asks for k passages, in whichever worker
\* process it runs and with no delete or reset of the document, returns
\* min(k, N) passages of the document.
C32_ProcessedDocumentIsRetrievable ==
    \A t \in Threads :
    \A u \in Threads \ {t} :
       LaterQuery(t, u) =>
          /\ threads[u].outcome = "returned"
          /\ Len(threads[u].result)
                = Min(MaxChunks + 1, Len(threads[t].op.chunks))
          /\ \A j \in 1..Len(threads[u].result) :
                \E c \in 1..Len(threads[t].op.chunks) :
                   threads[u].result[j].id
                      = chunk_id(threads[t].op.document_id,
                                 threads[t].op.chunks[c].chunk_index)

\* --------------------------------------------------- fixed_size_chunking
\* The tokens of each chunk after the overlap tokens it repeats from the
\* chunk before it.
FixedCores(chunks, overlap) ==
    [j \in 1..Len(chunks) |->
        IF j = 1 THEN encode(chunks[1])
        ELSE Drop(encode(chunks[j]), overlap)]

\* C33 (SpecFixed): every call of fixed_size_chunking with chunk_size >= 1
\* and overlap >= 0 returns, and when it has returned each chunk holds at
\* most chunk_size tokens and the chunks, their repeated overlap tokens set
\* aside, are the tokens of the input in order.
C33_FixedSizeChunkingTerminatesAndCovers ==
    /\ (last.op = "fixed_size_chunking") ~> (last.op = "fixed_size_chunking"
                                              /\ last.pc = "done")
    /\ []((last.op = "fixed_size_chunking" /\ last.pc = "done") =>
             /\ \A j \in 1..Len(last.chunks) :
                   Len(encode(last.chunks[j])) <= last.chunk_size
             /\ Flat(FixedCores(last.chunks, last.overlap)) = last.tokens)

====
